---- MODULE Spec2Model ----
(***************************************************************************)
(* Model of the translation orchestrator of subtitle-translater:           *)
(* SubtitleService.translateSubtitle and the three schedulers it           *)
(* dispatches to (translateSingleLineSerial, the bounded-parallel loop of  *)
(* translateSingleLine, translateMultiLine), src/src/core/SubtitleService.ts*)
(*                                                                         *)
(* A text is a sequence of one-character strings.  Positions are 1-based:  *)
(* position p of the model is index p-1 of the source.  One action is one  *)
(* run-to-completion step of the JavaScript event loop: the code between   *)
(* two awaits.  The capability (Translator.translate) answers at any time, *)
(* in any order; the abort flag is set by the caller at any time, also     *)
(* from inside the progress callback.                                      *)
(***************************************************************************)
EXTENDS Integers, Sequences, FiniteSets, TLC

\* ------------------------------------------------------------------ bounds
\* Largest document translated by a capability that may answer anything.
MaxN == 3
\* Largest document in multi-line mode.
MaxMultiN == 5
\* Largest document translated by the deterministic MockTranslator.
MaxMockN == 11
\* Largest document translated with context options.
MaxContextN == 5
\* Longest main prompt template, in tokens.
MaxTemplateLen == 2
\* Largest document handed to processSubtitle.
MaxProcessN == 2
\* Largest document of the jobs checked for termination.
MaxLiveN == 2
\* Largest document of the jobs whose progress sink may throw.
MaxSinkN == 2
\* Largest document of the jobs during which the translator is replaced.
MaxSwapN == 2
\* Largest document of each of two jobs running side by side.
MaxTwoN == 2
\* Most {context} tokens in a context or coherence template.
MaxContextTokens == 2
\* Most blocks in a file handed to the SRT parser.
MaxBlocks == 1

\* ------------------------------------------------------------------- texts
Min(a, b) == IF a < b THEN a ELSE b
Max(a, b) == IF a > b THEN a ELSE b

Whitespace == {" ", "\n"}

\* The value of an array slot never written, and of an index past the end.
Undef == <<"undefined">>

\* '[翻译中...]', one token: no operation of the model looks inside it.
Placeholder == <<"[translating...]">>

\* SubtitleService.MULTI_LINE_SEP, '|||'
MULTI_LINE_SEP == <<"|", "|", "|">>

RECURSIVE TrimStart(_)
TrimStart(s) ==
  IF s # <<>> /\ Head(s) \in Whitespace THEN TrimStart(Tail(s)) ELSE s

RECURSIVE TrimEnd(_)
TrimEnd(s) ==
  IF s # <<>> /\ s[Len(s)] \in Whitespace
    THEN TrimEnd(SubSeq(s, 1, Len(s) - 1))
    ELSE s

\* String.prototype.trim
Trim(s) == TrimEnd(TrimStart(s))

StartsWith(s, sep) ==
  Len(s) >= Len(sep) /\ SubSeq(s, 1, Len(sep)) = sep

\* String.prototype.split(sep), sep not empty: the pieces between the
\* occurrences of sep found scanning left to right, always at least one.
RECURSIVE SplitFrom(_, _, _)
SplitFrom(s, sep, acc) ==
  IF s = <<>> THEN <<acc>>
  ELSE IF StartsWith(s, sep)
    THEN <<acc>> \o SplitFrom(SubSeq(s, Len(sep) + 1, Len(s)), sep, <<>>)
    ELSE SplitFrom(Tail(s), sep, Append(acc, Head(s)))

Split(s, sep) == SplitFrom(s, sep, <<>>)

\* Array.prototype.join(sep)
RECURSIVE Join(_, _)
Join(parts, sep) ==
  IF parts = <<>> THEN <<>>
  ELSE IF Len(parts) = 1 THEN parts[1]
  ELSE parts[1] \o sep \o Join(Tail(parts), sep)

\* array[index] of the source: undefined past the end.
At(arr, p) == IF p >= 1 /\ p <= Len(arr) THEN arr[p] ELSE Undef

\* Percent rounding down: Math.floor in place of Math.round.
PercentFloor(completed, total) == (100 * completed) \div total

\* Math.round((completed / total) * 100), total > 0
Percent(completed, total) == (200 * completed + total) \div (2 * total)

\* --------------------------------------------------------------- job input
\* The characters of the source texts, one per position.
Letters == <<"a", "b", "c", "d", "e", "f", "g", "h", "i", "j", "k", "l", "m">>

\* A text as SRTParser.parse leaves it: trimmed and not empty; it may hold
\* whitespace inside.  Subtitle text is taken not to hold the separator.
SourceText(p) ==
  IF p % 2 = 0 THEN <<Letters[p], " ", Letters[p]>> ELSE <<Letters[p]>>

\* SubtitleEntry.  The index field is unique but neither contiguous nor in
\* positional order; the timestamps are abstract.
SourceEntry(p) ==
  [index |-> ((7 * p) % 13) + 1, startTime |-> 10 * p, endTime |-> 10 * p + 5,
   text |-> SourceText(p)]

SourceData(n) == [p \in 1..n |-> SourceEntry(p)]

\* TranslationOptions (the fields the schedulers read); onProgress is
\* whether the caller passed a progress callback.  parallelCount is as
\* the caller passes it: <<>> is "absent", <<k>> is k.
SingleOptions ==
  [mode : {"single"}, multiLineBatchSize : {3},
   contextLines : {0}, enableContext : {FALSE}, enableCoherence : {FALSE},
   parallelCount : {<<>>, <<-1>>, <<0>>, <<1>>, <<2>>, <<3>>, <<12>>},
   onProgress : BOOLEAN]

\* multiLineBatchSize is as the caller passes it.
MultiOptions ==
  [mode : {"multi"}, multiLineBatchSize : {-1, 0, 1, 2, 3, 11},
   contextLines : {0}, enableContext : {FALSE}, enableCoherence : {FALSE},
   parallelCount : {<<>>}, onProgress : BOOLEAN]


\* The jobs checked: a capability that may answer anything on small
\* documents, the MockTranslator on the larger ones.
Jobs ==
  [capability : {"arbitrary"}, n : 0..MaxN, options : SingleOptions]
    \cup [capability : {"arbitrary"}, n : 0..MaxMultiN, options : MultiOptions]
    \cup [capability : {"mock"}, n : 0..MaxMockN,
          options : {o \in SingleOptions \cup MultiOptions : o.onProgress}]

\* The jobs checked for termination: any capability, every mode.
LiveJobs ==
  [capability : {"arbitrary"}, n : 0..MaxLiveN,
   options : SingleOptions \cup MultiOptions]

\* The parallel jobs whose progress sink may throw.
SinkJobs ==
  [capability : {"arbitrary"}, n : 0..MaxSinkN,
   options : {o \in SingleOptions : o.parallelCount \in {<<2>>, <<3>>}}]

\* The jobs during which setTranslator is called.
SwapJobs ==
  [capability : {"arbitrary"}, n : 0..MaxSwapN,
   options : {o \in SingleOptions \cup MultiOptions :
                /\ ~o.onProgress
                /\ o.parallelCount \in {<<>>, <<2>>}
                /\ o.mode = "multi" => o.multiLineBatchSize = 1}]

\* The jobs checked for what the capability is sent as context: options
\* asking for context or coherence, sequential and parallel, with
\* contextLines as the caller passes it, and one multi-line job, which
\* takes no context.
ContextJobs ==
  [capability : {"mock"}, n : 0..MaxContextN,
   options :
     [mode : {"single"}, multiLineBatchSize : {3},
      contextLines : {-1, 0, 2, 3, 5}, enableContext : BOOLEAN,
      enableCoherence : BOOLEAN, parallelCount : {<<>>, <<2>>},
      onProgress : {TRUE}]
       \cup [mode : {"multi"}, multiLineBatchSize : {3},
             contextLines : {2}, enableContext : {TRUE},
             enableCoherence : {FALSE}, parallelCount : {<<>>},
             onProgress : {TRUE}]]

\* -------------------------------------------------------------- capability
\* What one call of Translator.translate ends with: a text, or a failure.
Reply(t) == [ok |-> TRUE, text |-> t]
Failure == [ok |-> FALSE, text |-> <<>>]

\* MockTranslator.translate: `[${sourceLang}->${targetLang}] ${text}`
MockTranslate(content) == <<"[s->t]", " ">> \o content

\* The answers of an arbitrary capability to one unit: empty, blank, a
\* translation, a translation surrounded by whitespace, or a failure.
UnitOutcomes(cap, content) ==
  IF cap = "mock" THEN {Reply(MockTranslate(content))}
  ELSE {Reply(<<>>), Reply(<<" ">>), Reply(<<"#">> \o content),
        Reply(<<" ", "#">> \o content \o <<"\n">>), Failure}

\* What the capability is sent for one batch: instruction + '\n\n' + merged.
\* The instruction is text that quotes the separator.
BatchContent(batch) ==
  LET instruction == <<"<", "\"">> \o MULTI_LINE_SEP \o <<"\"", ">">>
  IN  instruction \o <<"\n", "\n">>
        \o Join(batch, <<"\n">> \o MULTI_LINE_SEP \o <<"\n">>)

Translated(batch) == [j \in 1..Len(batch) |-> <<"#">> \o batch[j]]

\* The answers of an arbitrary capability to one batch: the texts echoed
\* with either form of the separator, every segment translated, one segment
\* missing, one segment too many, a blank segment, nothing, or a failure.
BatchOutcomes(cap, batch) ==
  IF cap = "mock" THEN {Reply(MockTranslate(BatchContent(batch)))}
  ELSE {Reply(Join(batch, MULTI_LINE_SEP)),
        Reply(Join(batch, <<"\n">> \o MULTI_LINE_SEP \o <<"\n">>)),
        Reply(Join(Translated(batch), <<" ">> \o MULTI_LINE_SEP \o <<" ">>)),
        Reply(Join(SubSeq(Translated(batch), 1, Len(batch) - 1), MULTI_LINE_SEP)),
        Reply(Join(Translated(batch) \o <<<<"+">>>>, MULTI_LINE_SEP)),
        Reply(Join(<<<<" ">>>> \o Tail(Translated(batch)), MULTI_LINE_SEP)),
        Reply(<<>>),
        Failure}

\* ------------------------------------------------------------------- state
VARIABLES
  data,            \* SubtitleData.entries handed to translateSubtitle
  options,         \* TranslationOptions
  capability,      \* which translator serves the job
  aborted,         \* abortSignal.aborted
  pc,              \* "idle", "serial", "parallel", "multi" or "done"
  results,         \* the results array of the running scheduler
  completedCount,  \* completedCount of translateSingleLine
  nextIndex,       \* next position to admit (parallel)
  activePromises,  \* keys of the activePromises Map, in insertion order
  tasks,           \* state of the promise translateOne returned, per position
  raceWinner,      \* first promise of the current race to settle, 0: none yet
  loopIndex,       \* i of the serial loop, start of the batch loop
  inFlight,        \* capability calls not yet answered, by first position
  callLog,         \* every capability call made, in order
  answers,         \* what the capability answered, by the call's first position
  lastProgress,    \* the last snapshot handed to the caller's onProgress
  eventCount,      \* number of snapshots handed to the caller
  abortedAt,       \* completed count of the snapshot during which abort was set
  outcome,         \* how translateSubtitle ended
  config,          \* LLMTranslatorConfig of the LLMTranslator
  request,         \* the arguments of one LLMTranslator.translate call
  prompt,          \* the prompt that call hands to callAPI, Undef before
  filename,        \* the filename handed to processSubtitle, Undef: not called
  outputFormat,    \* the outputFormat handed to processSubtitle, Undef: absent
  generated,       \* what generateSubtitle ended with
  writeLog,        \* every assignment to a results slot by translateOne, in order
  translator,      \* this.translator: which translator object the service holds
  jobs,            \* the locals of each of the calls running side by side
  content,         \* the blocks of the file handed to SRTParser.parse
  parsed           \* the entries parse returned

\* The state of translateSubtitle and its schedulers.
serviceVars ==
  <<data, options, capability, aborted, pc, results, completedCount, nextIndex,
    activePromises, tasks, raceWinner, loopIndex, inFlight, callLog, answers,
    lastProgress, eventCount, abortedAt, outcome>>

\* The state of the LLMTranslator.
translatorVars == <<config, request, prompt>>

\* The state of processSubtitle around its call of translateSubtitle.
processVars == <<filename, outputFormat, generated>>

parserVars == <<content, parsed>>
vars ==
  <<serviceVars, translatorVars, processVars, writeLog, translator, jobs, parserVars>>

total == Len(data)
texts == [p \in 1..total |-> data[p].text]

NoError == [kind |-> "none", call |-> 0]
\* new Error('翻译已取消')
CancelError == [kind |-> "cancelled", call |-> 0]
\* The error the k-th capability call failed with.
CallError(k) == [kind |-> "callFailed", call |-> k]

NoProgress ==
  [percent |-> -1, completed |-> -1, total |-> -1, currentIndex |-> -1,
   translatedTexts |-> <<>>, translatedEntries |-> <<>>]

Running == [status |-> "running", entries |-> <<>>, error |-> NoError]

\* The answer of a call not made or not yet answered.
Unanswered == [ok |-> FALSE, text |-> <<"not answered">>]

Unstarted == [state |-> "unstarted", error |-> NoError]
Pending == [state |-> "pending", error |-> NoError]
Fulfilled == [state |-> "fulfilled", error |-> NoError]
Rejected(e) == [state |-> "rejected", error |-> e]

\* translateSubtitle is about to be called on a job.
InitJob(job) ==
    /\ data = SourceData(job.n)
    /\ options = job.options
    /\ capability = job.capability
    /\ aborted = FALSE
    /\ pc = "idle"
    /\ results = <<>>
    /\ completedCount = 0
    /\ nextIndex = 1
    /\ activePromises = <<>>
    /\ tasks = [p \in 1..job.n |-> Unstarted]
    /\ raceWinner = 0
    /\ loopIndex = 1
    /\ inFlight = {}
    /\ callLog = <<>>
    /\ answers = [p \in 1..job.n |-> Unanswered]
    /\ lastProgress = NoProgress
    /\ eventCount = 0
    /\ abortedAt = -1
    /\ outcome = Running
    /\ writeLog = <<>>
    /\ translator = "first"
    /\ jobs = <<>>
    /\ content = <<>>
    /\ parsed = [done |-> FALSE, entries |-> <<>>]


\* ------------------------------------------------------- shared operations
\* What no step of translateSubtitle changes.
jobVars ==
  <<data, options, capability, translatorVars, processVars, writeLog, translator,
    jobs, parserVars>>
poolVars == <<completedCount, nextIndex, activePromises, tasks, raceWinner>>

Range(seq) == {seq[k] : k \in 1..Len(seq)}
Remove(seq, x) == SelectSeq(seq, LAMBDA y : y # x)

\* The number of the capability call whose first position is `first`.
CallNo(first) == CHOOSE k \in 1..Len(callLog) : callLog[k].first = first

\* Progress carrying the slot just completed and no other.
ProgressOnlyCurrent(completed, currentIndex, translatedTexts) ==
  [percent |-> Percent(completed, total), completed |-> completed,
   total |-> total, currentIndex |-> currentIndex,
   translatedTexts |->
     [p \in 1..Len(translatedTexts) |->
        IF p = currentIndex + 1 THEN translatedTexts[p] ELSE Undef]]

\* The object a scheduler passes to onProgress.
Progress(completed, currentIndex, translatedTexts) ==
  [percent |-> Percent(completed, total), completed |-> completed,
   total |-> total, currentIndex |-> currentIndex,
   translatedTexts |-> translatedTexts]

\* wrappedProgress: what the caller's onProgress receives; previewText is
\* the text it shows for one slot of progress.translatedTexts.
WrappedProgress(progress) ==
  LET previewText(t) ==
        IF t # Undef /\ Trim(t) # <<>> THEN Trim(t) ELSE Placeholder
  IN  [percent |-> progress.percent, completed |-> progress.completed,
       total |-> progress.total, currentIndex |-> progress.currentIndex,
       translatedTexts |-> progress.translatedTexts,
       translatedEntries |->
         [p \in 1..total |->
            [data[p] EXCEPT !.text = previewText(At(progress.translatedTexts, p))]]]

\* Emit leaving out the snapshot of the last unit.
EmitUnlessLast(progress, abortNow) ==
  IF options.onProgress /\ progress.completed < total
    THEN /\ lastProgress' = WrappedProgress(progress)
         /\ eventCount' = eventCount + 1
         /\ aborted' = (aborted \/ abortNow)
         /\ abortedAt' = IF abortNow /\ ~aborted THEN progress.completed ELSE abortedAt
    ELSE /\ abortNow = FALSE
         /\ UNCHANGED <<lastProgress, eventCount, aborted, abortedAt>>

\* if (onProgress) onProgress({...}); the callback may set the abort flag.
Emit(progress, abortNow) ==
  IF options.onProgress
    THEN /\ lastProgress' = WrappedProgress(progress)
         /\ eventCount' = eventCount + 1
         /\ aborted' = (aborted \/ abortNow)
         /\ abortedAt' = IF abortNow /\ ~aborted THEN progress.completed ELSE abortedAt
    ELSE /\ abortNow = FALSE
         /\ UNCHANGED <<lastProgress, eventCount, aborted, abortedAt>>

\* FinalText without the || entry.text fallback for an empty text.
FinalTextNoFallback(t, entryText) == IF t # Undef THEN Trim(t) ELSE entryText

\* text: translatedTexts[index]?.trim() || entry.text
FinalText(t, entryText) ==
  IF t # Undef /\ Trim(t) # <<>> THEN Trim(t) ELSE entryText

\* FinalEntries reading the scheduler's texts from the wrong end.
FinalEntriesReversed(translatedTexts) ==
  [p \in 1..total |->
     [data[p] EXCEPT !.text =
        FinalText(At(translatedTexts, total + 1 - p), data[p].text)]]

\* The document translateSubtitle returns.
FinalEntries(translatedTexts) ==
  [p \in 1..total |->
     [data[p] EXCEPT !.text = FinalText(At(translatedTexts, p), data[p].text)]]

Finish(status, entries, error) ==
  /\ pc' = "done"
  /\ outcome' = [status |-> status, entries |-> entries, error |-> error]

\* translateSubtitle returns the document built from the scheduler's texts.
Completed(translatedTexts) ==
  Finish("completed", FinalEntries(translatedTexts), NoError)

\* An error leaves translateSubtitle: the caller sees it.
Throw(error) ==
  Finish(IF error.kind = "cancelled" THEN "cancelled" ELSE "failed", <<>>, error)

\* EffectiveParallelCount without the upper clamp Math.min(10, ...).
EffectiveParallelCountNoCap(parallelCount) ==
  IF parallelCount # <<>> /\ parallelCount[1] # 0 /\ parallelCount[1] > 1
    THEN Max(2, parallelCount[1])
    ELSE 1

\* const effectiveParallelCount = parallelCount && parallelCount > 1
\*   ? Math.min(10, Math.max(2, parallelCount)) : 1
EffectiveParallelCount(parallelCount) ==
  IF parallelCount # <<>> /\ parallelCount[1] # 0 /\ parallelCount[1] > 1
    THEN Min(10, Max(2, parallelCount[1]))
    ELSE 1

\* ClampedSize without the clamp.
ClampedSizeUnclamped(batchSize) == batchSize

\* ClampedSize without the upper clamp Math.min(10, ...).
ClampedSizeNoUpper(batchSize) == Max(2, batchSize)

\* const clampedSize = Math.max(2, Math.min(10, batchSize))
ClampedSize(batchSize) == Max(2, Min(10, batchSize))

\* The literals that open the sections of a context block: '上文：',
\* '【目标句】', '下文：', one token each.
AboveHeader == <<"[above]">>
TargetHeader == <<"[target]">>
BelowHeader == <<"[below]">>

\* EffectiveContextLines without the raise to 1 under coherence.
EffectiveContextLinesAsPassed(contextLines, enableCoherence) == contextLines

\* const effectiveContextLines =
\*   enableCoherence ? Math.max(contextLines, 1) : contextLines
EffectiveContextLines(contextLines, enableCoherence) ==
  IF enableCoherence THEN Max(contextLines, 1) ELSE contextLines

\* texts.slice(Math.max(0, index - effectiveContextLines), index)
ContextBefore(txts, p, lines) == SubSeq(txts, Max(1, p - lines), p - 1)

\* ContextAfter ending one text early.
ContextAfterShort(txts, p, lines) ==
  SubSeq(txts, p + 1, Min(Len(txts), p + lines - 1))

\* texts.slice(index + 1, Math.min(texts.length, index + 1 + effectiveContextLines))
ContextAfter(txts, p, lines) == SubSeq(txts, p + 1, Min(Len(txts), p + lines))

\* parts.join('\n\n'): the sections of the context block of position p.
ContextBlock(txts, p, lines) ==
  LET before == ContextBefore(txts, p, lines)
      after == ContextAfter(txts, p, lines)
      above == IF before # <<>>
                 THEN <<AboveHeader \o <<"\n">> \o Join(before, <<"\n">>)>>
                 ELSE <<>>
      target == <<TargetHeader \o <<"\n">> \o txts[p]>>
      below == IF after # <<>>
                 THEN <<BelowHeader \o <<"\n">> \o Join(after, <<"\n">>)>>
                 ELSE <<>>
  IN  Join(above \o target \o below, <<"\n", "\n">>)

\* The options argument of translate: `given` is whether an object is
\* passed at all, a flag is TRUE or absent, context is a text or absent.
NoCallOptions ==
  [given |-> FALSE, context |-> Undef, enableContext |-> FALSE,
   enableCoherence |-> FALSE]

\* The options translateOne and the serial loop build for position p.
CallOptions(p) ==
  LET lines == EffectiveContextLines(options.contextLines, options.enableCoherence)
  IN  IF lines > 0
        THEN [given |-> TRUE, context |-> ContextBlock(texts, p, lines),
              enableContext |-> options.enableContext,
              enableCoherence |-> options.enableCoherence]
      ELSE IF options.enableCoherence
        THEN [NoCallOptions EXCEPT !.given = TRUE, !.enableCoherence = TRUE]
      ELSE IF options.enableContext
        THEN [NoCallOptions EXCEPT !.given = TRUE, !.enableContext = TRUE]
      ELSE NoCallOptions

UnitCall(p) ==
  [first |-> p, count |-> 1, content |-> texts[p], options |-> CallOptions(p),
   translator |-> translator]

BatchEnd(start) == Min(start + ClampedSize(options.multiLineBatchSize) - 1, total)
BatchOf(start) == SubSeq(texts, start, BatchEnd(start))
BatchCall(start) ==
  [first |-> start, count |-> BatchEnd(start) - start + 1,
   content |-> BatchContent(BatchOf(start)), options |-> NoCallOptions,
   translator |-> translator]

\* --------------------------------------------------- sequential single-line
\* SerialLoop without the abort check at the top of the iteration.
SerialLoopNoAbortCheck(i, res) ==
  IF i > total
    THEN /\ Completed(res)
         /\ loopIndex' = i /\ inFlight' = {} /\ callLog' = callLog
    ELSE /\ pc' = "serial" /\ outcome' = outcome
         /\ loopIndex' = i /\ inFlight' = {i}
         /\ callLog' = Append(callLog, UnitCall(i))

\* The for loop of translateSingleLineSerial from its test, up to the await.
SerialLoop(i, res) ==
  IF i > total
    THEN /\ Completed(res)
         /\ loopIndex' = i /\ inFlight' = {} /\ callLog' = callLog
    ELSE IF aborted'
      THEN /\ Throw(CancelError)
           /\ loopIndex' = i /\ inFlight' = {} /\ callLog' = callLog
      ELSE /\ pc' = "serial" /\ outcome' = outcome
           /\ loopIndex' = i /\ inFlight' = {i}
           /\ callLog' = Append(callLog, UnitCall(i))

\* The awaited call returns: push, report, next iteration.  A failure is
\* not caught and leaves translateSubtitle.
SerialReturn ==
  /\ pc = "serial"
  /\ \E o \in UnitOutcomes(capability, texts[loopIndex]), abortNow \in BOOLEAN :
       /\ answers' = [answers EXCEPT ![loopIndex] = o]
       /\ IF o.ok
            THEN /\ results' = Append(results, o.text)
                 /\ Emit(Progress(loopIndex, loopIndex - 1, results'), abortNow)
                 /\ SerialLoop(loopIndex + 1, results')
            ELSE /\ abortNow = FALSE
                 /\ Throw(CallError(Len(callLog)))
                 /\ inFlight' = {}
                 /\ UNCHANGED <<results, loopIndex, callLog, lastProgress,
                                eventCount, aborted, abortedAt>>
  /\ UNCHANGED <<jobVars, poolVars>>

\* ------------------------------------------------------------- multi-line
\* The for loop of translateMultiLine from its test, up to the await.
MultiLoop(start, res) ==
  IF start > total
    THEN /\ Completed(res)
         /\ loopIndex' = start /\ inFlight' = {} /\ callLog' = callLog
    ELSE IF aborted'
      THEN /\ Throw(CancelError)
           /\ loopIndex' = start /\ inFlight' = {} /\ callLog' = callLog
      ELSE /\ pc' = "multi" /\ outcome' = outcome
           /\ loopIndex' = start /\ inFlight' = {start}
           /\ callLog' = Append(callLog, BatchCall(start))

\* BatchResults without the ?? batch[j] fallback.
BatchResultsNoFallback(res, start, parts) ==
  [p \in 1..total |->
     IF p >= start /\ p <= BatchEnd(start)
       THEN IF p - start + 1 <= Len(parts)
              THEN Trim(parts[p - start + 1])
              ELSE Undef
       ELSE res[p]]

\* BatchResults writing every segment of the reply, those past the end of
\* the batch included.
BatchResultsSpill(res, start, parts) ==
  [p \in 1..total |->
     IF p >= start /\ p - start + 1 <= Len(parts)
       THEN Trim(parts[p - start + 1])
       ELSE IF p >= start /\ p <= BatchEnd(start) THEN texts[p] ELSE res[p]]

\* results[start + j] = parts[j]?.trim() ?? batch[j]
BatchResults(res, start, parts) ==
  [p \in 1..total |->
     IF p >= start /\ p <= BatchEnd(start)
       THEN IF p - start + 1 <= Len(parts)
              THEN Trim(parts[p - start + 1])
              ELSE texts[p]
       ELSE res[p]]

\* The translatedTexts of a batch's progress: the defined results below
\* `completed`.
BatchProgressTexts(res, completed) ==
  SelectSeq(SubSeq(res, 1, completed), LAMBDA t : t # Undef)

\* BatchFailure sending the failed batch again.
BatchFailureRetry(start) ==
  /\ UNCHANGED <<results, lastProgress, eventCount, aborted, abortedAt>>
  /\ MultiLoop(start, results)

\* BatchFailure with the failure caught as in single-line mode: the batch
\* keeps its source texts and the loop goes on.
BatchFailureCaught(start) ==
  /\ results' = [p \in 1..total |->
        IF p >= start /\ p <= BatchEnd(start) THEN texts[p] ELSE results[p]]
  /\ UNCHANGED <<lastProgress, eventCount, aborted, abortedAt>>
  /\ MultiLoop(start + ClampedSize(options.multiLineBatchSize), results')

\* const translated = await this.translator.translate(...) rejects: nothing
\* catches it, the error leaves translateMultiLine and translateSubtitle.
BatchFailure(start) ==
  /\ Throw(CallError(Len(callLog)))
  /\ inFlight' = {}
  /\ UNCHANGED <<results, loopIndex, callLog, lastProgress, eventCount, aborted,
                 abortedAt>>

\* The awaited batch call returns: split, fill the slots, report, next batch.
\* A failure is not caught and leaves translateSubtitle.
MultiReturn ==
  /\ pc = "multi"
  /\ \E o \in BatchOutcomes(capability, BatchOf(loopIndex)), abortNow \in BOOLEAN :
       LET start == loopIndex
           end == BatchEnd(loopIndex)
           parts == Split(o.text, MULTI_LINE_SEP)
       IN  IF o.ok
             THEN /\ answers' = [answers EXCEPT ![start] = o]
                  /\ results' = BatchResults(results, start, parts)
                  /\ Emit(Progress(end, end - 1, BatchProgressTexts(results', end)),
                          abortNow)
                  /\ MultiLoop(start + ClampedSize(options.multiLineBatchSize), results')
             ELSE /\ abortNow = FALSE
                  /\ answers' = [answers EXCEPT ![start] = o]
                  /\ BatchFailure(start)
  /\ UNCHANGED <<jobVars, poolVars>>

\* ------------------------------------------------ bounded-parallel single-line
\* translateOne up to its await: it throws at once when the flag is set,
\* else it calls the capability.
TranslateOneStart(ab) == IF ab THEN Rejected(CancelError) ELSE Pending

\* FirstSettled of a race that only sees the promises settling after it
\* was started.
FirstSettledNone(ap, ts) == 0

\* The promise on which Promise.race(racePromises) settles when some raced
\* promise is settled already: the first such in Map order.  0: none is.
FirstSettled(ap, ts) ==
  IF \E k \in 1..Len(ap) : ts[ap[k]].state \in {"fulfilled", "rejected"}
    THEN ap[CHOOSE k \in 1..Len(ap) :
              /\ ts[ap[k]].state \in {"fulfilled", "rejected"}
              /\ \A j \in 1..(k - 1) : ts[ap[j]].state = "pending"]
    ELSE 0

\* return results.map((r, i) => r || texts[i])
ParallelTexts(res) ==
  [p \in 1..total |-> IF res[p] = Undef \/ res[p] = <<>> THEN texts[p] ELSE res[p]]

\* The while loop of translateSingleLine from its test, up to the await of
\* the race, and what follows the loop.
ParallelLoop(ap, ts, res) ==
  IF ap # <<>>
    THEN IF aborted'
           THEN Throw(CancelError) /\ raceWinner' = 0
           ELSE /\ pc' = "parallel" /\ outcome' = outcome
                /\ raceWinner' = FirstSettled(ap, ts)
    ELSE /\ raceWinner' = 0
         /\ IF aborted' THEN Throw(CancelError) ELSE Completed(ParallelTexts(res))

\* InitialBatch admitting one position only.
InitialBatchSingle(parallelCount) == 1..Min(1, total)

\* The positions the initial while loop admits.
InitialBatch(parallelCount) == 1..Min(EffectiveParallelCount(parallelCount), total)

\* if (nextIndex < total && !abortSignal?.aborted) { admit nextIndex++ },
\* then the loop again.
AdmitAndLoop(ap) ==
  LET admit == nextIndex <= total /\ ~aborted
      started == admit /\ TranslateOneStart(aborted) = Pending
      ap2 == IF admit THEN Append(ap, nextIndex) ELSE ap
      ts2 == IF admit
               THEN [tasks EXCEPT ![nextIndex] = TranslateOneStart(aborted)]
               ELSE tasks
  IN  /\ nextIndex' = IF admit THEN nextIndex + 1 ELSE nextIndex
      /\ activePromises' = ap2
      /\ tasks' = ts2
      /\ inFlight' = IF started THEN inFlight \cup {nextIndex} ELSE inFlight
      /\ callLog' = IF started THEN Append(callLog, UnitCall(nextIndex)) ELSE callLog
      /\ ParallelLoop(ap2, ts2, results)

\* When the capability may answer the call of position p.  MockTranslator
\* answers after setTimeout(resolve, 100): its calls end in the order they
\* were made, each in a timer task of its own, so the scheduling loop has run
\* on the previous answer before the next one arrives.  An arbitrary
\* capability answers at any time.
MayAnswer(cap, p) ==
  cap = "mock" =>
    /\ \A q \in inFlight : p <= q
    /\ pc = "parallel" => raceWinner = 0

\* SoftFailText leaving the slot unset.
SoftFailTextUnset(targetText) == Undef

\* catch (error) { ... results[index] = targetText }: the slot of a unit
\* whose call failed.
SoftFailText(targetText) == targetText

\* translateOne from the return of its await to its end, `flag` being the
\* abort flag as the checks after the call read it: with the flag set it
\* throws (the cancellation after an answer, the capability's own error after
\* a failure); else it fills the slot (with the source text after a failure),
\* counts and reports.
TranslateOneReturn(p, flag) ==
  /\ pc \in {"parallel", "done"}
  /\ options.mode = "single"
  /\ tasks[p].state = "pending"
  /\ MayAnswer(capability, p)
  /\ \E o \in UnitOutcomes(capability, texts[p]), abortNow \in BOOLEAN :
       /\ answers' = [answers EXCEPT ![p] = o]
       /\ IF flag
            THEN /\ abortNow = FALSE
                 /\ tasks' = [tasks EXCEPT ![p] =
                      Rejected(IF o.ok THEN CancelError ELSE CallError(CallNo(p)))]
                 /\ UNCHANGED <<results, completedCount, lastProgress, eventCount,
                                aborted, abortedAt>>
            ELSE /\ results' = [results EXCEPT ![p] =
                      IF o.ok THEN o.text ELSE SoftFailText(texts[p])]
                 /\ completedCount' = completedCount + 1
                 /\ Emit(Progress(completedCount', p - 1, results'), abortNow)
                 /\ tasks' = [tasks EXCEPT ![p] = Fulfilled]
  /\ inFlight' = inFlight \ {p}
  /\ raceWinner' = IF pc = "parallel" /\ raceWinner = 0 /\ p \in Range(activePromises)
                     THEN p ELSE raceWinner
  /\ UNCHANGED <<jobVars, pc, nextIndex, activePromises, loopIndex, callLog, outcome>>

\* TranslateOneSettle without the abort checks after the call.
TranslateOneSettleNoCheck(p) == TranslateOneReturn(p, FALSE)

\* The capability answers the call of position p.
TranslateOneSettle(p) == TranslateOneReturn(p, aborted)

\* The race settles and the scheduling loop runs on to its next await.
RaceSettled ==
  /\ pc = "parallel"
  /\ raceWinner # 0
  /\ UNCHANGED <<jobVars, aborted, results, completedCount, loopIndex, answers,
                 lastProgress, eventCount, abortedAt>>
  /\ IF tasks[raceWinner].state = "fulfilled"
       THEN AdmitAndLoop(Remove(activePromises, raceWinner))
       ELSE IF tasks[raceWinner].error.kind = "cancelled"
         THEN /\ Throw(tasks[raceWinner].error)
              /\ raceWinner' = 0
              /\ UNCHANGED <<nextIndex, activePromises, tasks, inFlight, callLog>>
         ELSE AdmitAndLoop(Tail(activePromises))

\* -------------------------------------------- a progress sink that may throw
\* What the caller's onProgress does on one invocation: it may set the
\* abort flag, and it returns or throws.
SinkReturns == [abort |-> FALSE, throws |-> FALSE]

\* The error a throwing onProgress throws; its message is not '翻译已取消'.
SinkError == [kind |-> "sinkThrew", call |-> 0]

\* results[index] = ... in translateOne(index)
SlotWrite(p) == [slot |-> p, task |-> p]

\* translateOne from the return of its await to its end, with a sink that
\* may throw.  The try block writes the slot, counts and invokes the sink;
\* what the sink throws lands in the catch block of the same try, which
\* rethrows when the flag is set and else writes the source text, counts
\* and invokes the sink again; what the sink throws there, and what it throws
\* after a failed call, leaves translateOne.
TranslateOneSettleSink(p) ==
  /\ pc \in {"parallel", "done"}
  /\ options.mode = "single"
  /\ tasks[p].state = "pending"
  /\ MayAnswer(capability, p)
  /\ \E o \in UnitOutcomes(capability, texts[p]), s1, s2 \in [abort : BOOLEAN, throws : BOOLEAN] :
       LET res1 == [results EXCEPT ![p] = IF o.ok THEN o.text ELSE SoftFailText(texts[p])]
           c1 == completedCount + 1
           snap1 == WrappedProgress(Progress(c1, p - 1, res1))
           again == o.ok /\ options.onProgress /\ s1.throws /\ ~s1.abort
           res2 == [res1 EXCEPT ![p] = SoftFailText(texts[p])]
           c2 == c1 + 1
           snap2 == WrappedProgress(Progress(c2, p - 1, res2))
       IN  /\ answers' = [answers EXCEPT ![p] = o]
           /\ IF aborted
                THEN /\ s1 = SinkReturns /\ s2 = SinkReturns
                     /\ tasks' = [tasks EXCEPT ![p] =
                          Rejected(IF o.ok THEN CancelError ELSE CallError(CallNo(p)))]
                     /\ UNCHANGED <<results, completedCount, lastProgress,
                                    eventCount, aborted, abortedAt, writeLog>>
                ELSE IF ~options.onProgress
                  THEN /\ s1 = SinkReturns /\ s2 = SinkReturns
                       /\ results' = res1
                       /\ completedCount' = c1
                       /\ writeLog' = Append(writeLog, SlotWrite(p))
                       /\ tasks' = [tasks EXCEPT ![p] = Fulfilled]
                       /\ UNCHANGED <<lastProgress, eventCount, aborted, abortedAt>>
                ELSE IF ~again
                  THEN /\ s2 = SinkReturns
                       /\ results' = res1
                       /\ completedCount' = c1
                       /\ writeLog' = Append(writeLog, SlotWrite(p))
                       /\ lastProgress' = snap1
                       /\ eventCount' = eventCount + 1
                       /\ aborted' = s1.abort
                       /\ abortedAt' = IF s1.abort THEN c1 ELSE abortedAt
                       /\ tasks' = [tasks EXCEPT ![p] =
                            IF s1.throws THEN Rejected(SinkError) ELSE Fulfilled]
                  ELSE /\ results' = res2
                       /\ completedCount' = c2
                       /\ writeLog' = writeLog \o <<SlotWrite(p), SlotWrite(p)>>
                       /\ lastProgress' = snap2
                       /\ eventCount' = eventCount + 2
                       /\ aborted' = s2.abort
                       /\ abortedAt' = IF s2.abort THEN c2 ELSE abortedAt
                       /\ tasks' = [tasks EXCEPT ![p] =
                            IF s2.throws THEN Rejected(SinkError) ELSE Fulfilled]
  /\ inFlight' = inFlight \ {p}
  /\ raceWinner' = IF pc = "parallel" /\ raceWinner = 0 /\ p \in Range(activePromises)
                     THEN p ELSE raceWinner
  /\ UNCHANGED <<data, options, capability, translatorVars, processVars,
                 translator, jobs, parserVars, pc, nextIndex, activePromises, loopIndex,
                 callLog, outcome>>

\* --------------------------------------------------------------- setTranslator
\* The translator objects a caller may hand to the service are "first",
\* the one it is constructed with, and "second".
\* setTranslator(translator): this.translator = translator
SetTranslator(t) ==
  /\ translator # t
  /\ translator' = t
  /\ UNCHANGED <<serviceVars, translatorVars, processVars, writeLog, jobs, parserVars>>

\* ------------------------------------- two calls on one SubtitleService
\* Two calls of translateSubtitle in parallel mode run side by side on one
\* instance.  What a call works on are its parameters and the locals of
\* translateSingleLine (results, completedCount, nextIndex, activePromises);
\* the instance holds parsers, generators and translator only.  The shared
\* translator is the MockTranslator, whose answers arrive in any order here.
JobIds == 1..2

\* The parameters and locals of call j before it is made; the texts of the
\* two documents differ.
TwoJob(j, n, parallelCount) ==
  [texts |-> [p \in 1..n |-> <<Letters[j], Letters[p]>>], parallelCount |-> parallelCount, pc |-> "idle",
   aborted |-> FALSE, results |-> <<>>, completedCount |-> 0, nextIndex |-> 1,
   activePromises |-> <<>>, tasks |-> [p \in 1..n |-> Unstarted], raceWinner |-> 0,
   events |-> <<>>, outcome |-> "running", final |-> <<>>]

\* The abort flag of every call being one flag of the instance.
AbortFlagShared(j) == \E i \in JobIds : jobs[i].aborted

\* abortSignal?.aborted: the flag of the object handed to call j
AbortFlag(j) == jobs[j].aborted

\* throw new Error('翻译已取消') leaving the call
TwoCancelled(job) == [job EXCEPT !.pc = "done", !.outcome = "cancelled", !.raceWinner = 0]

\* The while loop of translateSingleLine from its test, up to the await of
\* the race, and what follows the loop, on the locals of call j.
TwoLoop(j, job) ==
  IF job.activePromises # <<>>
    THEN IF AbortFlag(j)
           THEN TwoCancelled(job)
           ELSE [job EXCEPT !.pc = "parallel",
                            !.raceWinner = FirstSettled(job.activePromises, job.tasks)]
    ELSE IF AbortFlag(j)
      THEN TwoCancelled(job)
      ELSE [job EXCEPT !.pc = "done", !.outcome = "completed", !.raceWinner = 0,
                       !.final = [p \in 1..Len(job.texts) |->
                                    IF job.results[p] = Undef \/ job.results[p] = <<>>
                                      THEN job.texts[p] ELSE job.results[p]]]

\* Call j is made: the abort check, the initial batch and the loop up to
\* its first await.
TwoStart(j) ==
  /\ jobs[j].pc = "idle"
  /\ LET job == jobs[j]
         n == Len(job.texts)
         batch == 1..Min(job.parallelCount, n)
         begun == [job EXCEPT
                     !.results = [p \in 1..n |-> Undef],
                     !.nextIndex = Cardinality(batch) + 1,
                     !.activePromises = [k \in batch |-> k],
                     !.tasks = [p \in 1..n |->
                                 IF p \in batch
                                   THEN TranslateOneStart(AbortFlag(j))
                                   ELSE Unstarted]]
     IN  jobs' = [jobs EXCEPT ![j] =
                    IF AbortFlag(j) THEN TwoCancelled(job) ELSE TwoLoop(j, begun)]
  /\ UNCHANGED <<serviceVars, translatorVars, processVars, writeLog, translator,
                 parserVars>>

\* The translator answers the call of position p of call j: translateOne
\* from the return of its await to its end.
TwoSettle(j, p) ==
  /\ jobs[j].pc \in {"parallel", "done"}
  /\ p \in 1..Len(jobs[j].texts)
  /\ jobs[j].tasks[p].state = "pending"
  /\ LET job == jobs[j]
         winner == IF job.pc = "parallel" /\ job.raceWinner = 0
                      /\ p \in Range(job.activePromises)
                     THEN p ELSE job.raceWinner
     IN  jobs' = [jobs EXCEPT ![j] =
           IF AbortFlag(j)
             THEN [job EXCEPT !.tasks[p] = Rejected(CancelError),
                              !.raceWinner = winner]
             ELSE [job EXCEPT
                     !.results[p] = MockTranslate(job.texts[p]),
                     !.completedCount = @ + 1,
                     !.events = Append(@, [completed |-> job.completedCount + 1,
                                           total |-> Len(job.texts),
                                           currentIndex |-> p - 1]),
                     !.tasks[p] = Fulfilled,
                     !.raceWinner = winner]]
  /\ UNCHANGED <<serviceVars, translatorVars, processVars, writeLog, translator,
                 parserVars>>

\* The race of call j settles and its loop runs on to its next await.
TwoRace(j) ==
  /\ jobs[j].pc = "parallel"
  /\ jobs[j].raceWinner # 0
  /\ LET job == jobs[j]
         w == job.raceWinner
         admit == job.nextIndex <= Len(job.texts) /\ ~AbortFlag(j)
         left == [job EXCEPT !.activePromises = Remove(@, w)]
         next == IF admit
                   THEN [left EXCEPT
                           !.activePromises = Append(@, job.nextIndex),
                           !.tasks[job.nextIndex] = TranslateOneStart(AbortFlag(j)),
                           !.nextIndex = @ + 1]
                   ELSE left
     IN  jobs' = [jobs EXCEPT ![j] =
           IF job.tasks[w].state = "fulfilled"
             THEN TwoLoop(j, next)
             ELSE TwoCancelled(job)]
  /\ UNCHANGED <<serviceVars, translatorVars, processVars, writeLog, translator,
                 parserVars>>

\* The caller of call j sets the flag of the object it handed to that call.
TwoAbort(j) ==
  /\ jobs[j].pc # "done"
  /\ ~jobs[j].aborted
  /\ jobs' = [jobs EXCEPT ![j].aborted = TRUE]
  /\ UNCHANGED <<serviceVars, translatorVars, processVars, writeLog, translator,
                 parserVars>>

\* ----------------------------------------------------------- translateSubtitle
\* AbortedAtCall of a translateSubtitle that does not look at the flag.
AbortedAtCallIgnored == FALSE

\* if (abortSignal?.aborted) throw new Error('翻译已取消'), before the dispatch
AbortedAtCall == aborted

\* translateSubtitle is called: the abort check, the dispatch on the mode and
\* the chosen scheduler up to its first await.
Start ==
  /\ pc = "idle"
  /\ UNCHANGED <<jobVars, aborted, answers, lastProgress, eventCount, abortedAt>>
  /\ IF AbortedAtCall
       THEN /\ Throw(CancelError)
            /\ UNCHANGED <<results, poolVars, loopIndex, inFlight, callLog>>
       ELSE IF options.mode = "multi"
         THEN /\ results' = [p \in 1..total |-> Undef]
              /\ MultiLoop(1, results')
              /\ UNCHANGED poolVars
         ELSE IF EffectiveParallelCount(options.parallelCount) = 1
           THEN /\ results' = <<>>
                /\ SerialLoop(1, results')
                /\ UNCHANGED poolVars
           ELSE LET batch == InitialBatch(options.parallelCount)
                    ap == [k \in batch |-> k]
                    ts == [p \in 1..total |->
                             IF p \in batch THEN TranslateOneStart(aborted)
                                            ELSE Unstarted]
                    started == {p \in batch : ts[p] = Pending}
                IN  /\ results' = [p \in 1..total |-> Undef]
                    /\ completedCount' = 0
                    /\ nextIndex' = Cardinality(batch) + 1
                    /\ activePromises' = ap
                    /\ tasks' = ts
                    /\ inFlight' = started
                    /\ callLog' = [k \in started |-> UnitCall(k)]
                    /\ loopIndex' = loopIndex
                    /\ ParallelLoop(ap, ts, results')

\* The caller sets abortSignal.aborted between two steps of the job.
Abort ==
  /\ pc # "done"
  /\ ~aborted
  /\ aborted' = TRUE
  /\ UNCHANGED <<jobVars, pc, results, poolVars, loopIndex, inFlight, callLog,
                 answers, lastProgress, eventCount, abortedAt, outcome>>

\* ------------------------------------------------------------ LLMTranslator
\* A prompt, a template and a value are sequences of tokens.  A token is a
\* placeholder, a replacement pattern of String.prototype.replace ("$&",
\* "$$") or a character; braces occur in placeholders only.
RecognizedPlaceholders ==
  {"{content}", "{sourceLang}", "{targetLang}", "{custom_prompt}",
   "{context_prompt}", "{coherence_prompt}"}

\* x is truthy: a string that is neither undefined nor empty.
Truthy(x) == x # Undef /\ x # <<>>

RECURSIVE Flatten(_)
Flatten(seqs) == IF seqs = <<>> THEN <<>> ELSE Head(seqs) \o Flatten(Tail(seqs))

\* GetSubstitution: what String.prototype.replace inserts for a replacement
\* string, "$&" standing for the matched text and "$$" for a dollar sign.
GetSubstitution(matched, replacement) ==
  Flatten([k \in 1..Len(replacement) |->
             IF replacement[k] = "$&" THEN <<matched>>
             ELSE IF replacement[k] = "$$" THEN <<"$">>
             ELSE <<replacement[k]>>])

\* s.replace(/token/g, replacement): every occurrence, what was inserted is
\* not searched again.
ReplaceAll(s, token, replacement) ==
  Flatten([k \in 1..Len(s) |->
             IF s[k] = token THEN GetSubstitution(token, replacement)
                             ELSE <<s[k]>>])

\* s.replace('token', replacement) with a string pattern: the first
\* occurrence only.
ReplaceFirst(s, token, replacement) ==
  IF \E k \in 1..Len(s) : s[k] = token
    THEN LET k == CHOOSE j \in 1..Len(s) :
                    s[j] = token /\ \A i \in 1..(j - 1) : s[i] # token
         IN  SubSeq(s, 1, k - 1) \o GetSubstitution(token, replacement)
               \o SubSeq(s, k + 1, Len(s))
    ELSE s

\* s.includes('token')
Includes(s, token) == \E k \in 1..Len(s) : s[k] = token

\* const customPromptResolved = this.config.customPrompt?.trim() || ''
CustomPromptResolved(cfg) ==
  IF cfg.customPrompt = Undef THEN <<>> ELSE Trim(cfg.customPrompt)

\* ContextPromptResolved not looking at enableContext.
ContextPromptResolvedAnyFlag(cfg, opts) ==
  IF opts.given /\ Truthy(opts.context) /\ Truthy(cfg.contextPrompt)
    THEN ReplaceFirst(cfg.contextPrompt, "{context}", opts.context)
    ELSE <<>>

\* contextPromptResolved
ContextPromptResolved(cfg, opts) ==
  IF opts.given /\ opts.enableContext /\ Truthy(opts.context)
       /\ Truthy(cfg.contextPrompt)
    THEN ReplaceFirst(cfg.contextPrompt, "{context}", opts.context)
    ELSE <<>>

\* coherencePromptResolved
CoherencePromptResolved(cfg, opts) ==
  IF opts.given /\ opts.enableCoherence /\ Truthy(opts.context)
       /\ Truthy(cfg.coherencePrompt)
    THEN ReplaceFirst(cfg.coherencePrompt, "{context}", opts.context)
    ELSE <<>>

\* The chain of six replace calls on this.config.prompt.
ReplaceChain(cfg, req) ==
  LET s1 == ReplaceAll(cfg.prompt, "{custom_prompt}", CustomPromptResolved(cfg))
      s2 == ReplaceAll(s1, "{context_prompt}", ContextPromptResolved(cfg, req.options))
      s3 == ReplaceAll(s2, "{coherence_prompt}",
                       CoherencePromptResolved(cfg, req.options))
      s4 == ReplaceAll(s3, "{content}", req.text)
      s5 == ReplaceAll(s4, "{sourceLang}", req.sourceLang)
  IN  ReplaceAll(s5, "{targetLang}", req.targetLang)

\* CoherenceFallback appending whether or not the template has the token.
CoherenceFallbackAlways(chained, cfg, opts) ==
  IF opts.given /\ opts.enableCoherence
       /\ Truthy(CoherencePromptResolved(cfg, opts))
    THEN chained \o <<"\n", "\n">> \o CoherencePromptResolved(cfg, opts)
    ELSE chained

\* if (options?.enableCoherence && coherencePromptResolved &&
\*     !this.config.prompt.includes('{coherence_prompt}'))
\*   prompt = prompt + '\n\n' + coherencePromptResolved
CoherenceFallback(chained, cfg, opts) ==
  IF opts.given /\ opts.enableCoherence
       /\ Truthy(CoherencePromptResolved(cfg, opts))
       /\ ~Includes(cfg.prompt, "{coherence_prompt}")
    THEN chained \o <<"\n", "\n">> \o CoherencePromptResolved(cfg, opts)
    ELSE chained

\* The prompt LLMTranslator.translate hands to callAPI.
ResolvePrompt(cfg, req) ==
  CoherenceFallback(ReplaceChain(cfg, req), cfg, req.options)

\* LLMTranslatorConfig (the fields translate reads); an optional field not
\* set is Undef.  The main template is made of the recognized placeholders
\* and a word.
Configs ==
  [prompt :
     UNION {[1..m -> RecognizedPlaceholders \cup {"x"}] : m \in 0..MaxTemplateLen},
   contextPrompt : {Undef, <<"c", "{context}">>},
   coherencePrompt : {Undef, <<"h", "{context}">>, <<"{context}", "{targetLang}">>},
   customPrompt : {Undef, <<" ">>, <<"k", " ">>}]

\* The arguments of translate.  A unit text may hold what looks like a
\* placeholder or a replacement pattern.  The options of a call: none, or
\* flags with or without a context, which may be the empty string.
Requests ==
  [text : {<<"t">>, <<"{sourceLang}">>, <<"{custom_prompt}">>, <<"$&">>},
   sourceLang : {<<"en">>}, targetLang : {<<"zh">>},
   options :
     {NoCallOptions}
       \cup [given : {TRUE}, context : {Undef, <<>>, <<"v">>},
             enableContext : BOOLEAN, enableCoherence : BOOLEAN]]

\* Context and coherence templates with up to MaxContextTokens {context}
\* tokens, each followed by a word.
RECURSIVE ContextTemplate(_)
ContextTemplate(m) ==
  IF m = 0 THEN <<"w">> ELSE ContextTemplate(m - 1) \o <<"{context}", "w">>

\* Configurations whose context and coherence templates hold several
\* {context} tokens.
RenderConfigs ==
  [prompt : {<<"{context_prompt}">>, <<"{coherence_prompt}">>, <<"{content}">>,
             <<"{context_prompt}", "{content}">>,
             <<"{content}", "{coherence_prompt}">>},
   contextPrompt : {Undef} \cup {ContextTemplate(m) : m \in 0..MaxContextTokens},
   coherencePrompt : {Undef} \cup {ContextTemplate(m) : m \in 0..MaxContextTokens},
   customPrompt : {Undef}]

\* The translator of a job whose translate is not looked into.
NoRequest ==
  [text |-> <<>>, sourceLang |-> <<>>, targetLang |-> <<>>,
   options |-> NoCallOptions]

TranslatorUnused ==
  /\ config = [prompt |-> <<>>, contextPrompt |-> Undef,
               coherencePrompt |-> Undef, customPrompt |-> Undef]
  /\ request = NoRequest
  /\ prompt = Undef

\* LLMTranslator.translate from its entry to the call of callAPI.
Translate ==
  /\ prompt = Undef
  /\ request # NoRequest
  /\ prompt' = ResolvePrompt(config, request)
  /\ UNCHANGED <<serviceVars, config, request, processVars, writeLog, translator,
                 jobs, parserVars>>

\* ------------------------------------ LLMTranslator with a process mode
\* The LLMTranslator of Translator.ts: its options carry processMode, its
\* configuration a coherenceModePrompt, and it knows no {coherence_prompt}.

\* IsCoherenceMode of a translator that knows the translate mode only.
IsCoherenceModeNever(opts) == FALSE

\* const isCoherenceMode = options?.processMode === 'coherence'
IsCoherenceMode(opts) == opts.given /\ opts.processMode = <<"coherence">>

\* const basePrompt = isCoherenceMode
\*   ? (this.config.coherenceModePrompt || this.config.prompt) : this.config.prompt
BasePrompt(cfg, opts) ==
  IF IsCoherenceMode(opts) /\ Truthy(cfg.coherenceModePrompt)
    THEN cfg.coherenceModePrompt ELSE cfg.prompt

\* The prompt translate hands to callAPI.
ResolvePromptMode(cfg, req) ==
  LET s1 == ReplaceAll(BasePrompt(cfg, req.options), "{custom_prompt}",
                       CustomPromptResolved(cfg))
      s2 == ReplaceAll(s1, "{context_prompt}", ContextPromptResolved(cfg, req.options))
      s3 == ReplaceAll(s2, "{content}", req.text)
  IN  IF IsCoherenceMode(req.options)
        THEN s3
        ELSE ReplaceAll(ReplaceAll(s3, "{sourceLang}", req.sourceLang),
                        "{targetLang}", req.targetLang)

\* Its configuration; the main template is made of the placeholders it
\* knows and a word.
ModeConfigs ==
  [prompt :
     UNION {[1..m -> {"{content}", "{sourceLang}", "{targetLang}",
                      "{custom_prompt}", "{context_prompt}", "x"}] :
              m \in 0..MaxTemplateLen},
   contextPrompt : {Undef, <<"c", "{context}">>},
   coherenceModePrompt : {Undef, <<>>, <<"r", "{content}", "{targetLang}">>},
   customPrompt : {Undef, <<"k", " ">>}]

\* The arguments of its translate: no options, or options with or without
\* a processMode.
ModeRequests ==
  [text : {<<"t">>, <<"{sourceLang}">>},
   sourceLang : {<<"en">>}, targetLang : {<<"zh">>},
   options :
     {[given |-> FALSE, context |-> Undef, enableContext |-> FALSE,
       processMode |-> Undef]}
       \cup [given : {TRUE}, context : {Undef, <<"v">>},
             enableContext : BOOLEAN,
             processMode : {Undef, <<"translate">>, <<"coherence">>}]]

\* translate of that LLMTranslator from its entry to the call of callAPI.
TranslateMode ==
  /\ prompt = Undef
  /\ request \in ModeRequests
  /\ prompt' = ResolvePromptMode(config, request)
  /\ UNCHANGED <<serviceVars, config, request, processVars, writeLog, translator,
                 jobs, parserVars>>

\* ------------------------------------------------------------------ SRTParser
\* A line is a sequence of characters, one token each, the arrow "-->" being
\* one token; a block is the sequence of lines block.trim().split('\n')
\* gives; the file is taken as the blocks its split on blank lines leaves.
Digits == {"0", "1", "2"}

\* /\d{2}:\d{2}:\d{2}[,.]\d{3}/ matching s from position i on
TimeAt(s, i) ==
  /\ i >= 1 /\ i + 11 <= Len(s)
  /\ \A d \in {0, 1, 3, 4, 6, 7, 9, 10, 11} : s[i + d] \in Digits
  /\ s[i + 2] = ":" /\ s[i + 5] = ":"
  /\ s[i + 8] \in {",", "."}

\* \s* : the first position from j on that holds no whitespace
RECURSIVE SkipSpaces(_, _)
SkipSpaces(s, j) ==
  IF j <= Len(s) /\ s[j] \in Whitespace THEN SkipSpaces(s, j + 1) ELSE j

\* The whole pattern of the time line matching from position i on.
TimeLineAt(s, i) ==
  /\ TimeAt(s, i)
  /\ LET a == SkipSpaces(s, i + 12)
     IN  /\ a <= Len(s) /\ s[a] = "-->"
         /\ TimeAt(s, SkipSpaces(s, a + 1))

\* timeLine.match(...): the two groups of the leftmost match, <<>> for null.
TimeMatch(s) ==
  IF \E i \in 1..Len(s) : TimeLineAt(s, i)
    THEN LET i == CHOOSE k \in 1..Len(s) :
                    TimeLineAt(s, k) /\ \A h \in 1..(k - 1) : ~TimeLineAt(s, h)
             j == SkipSpaces(s, SkipSpaces(s, i + 12) + 1)
         IN  <<SubSeq(s, i, i + 11), SubSeq(s, j, j + 11)>>
    ELSE <<>>

\* /^\d{2}:\d{2}:\d{2},\d{3}$/
StrictTime(t) == Len(t) = 12 /\ TimeAt(t, 1) /\ t[9] = ","

\* time.split(/[:,.]/)
RECURSIVE SplitTime(_, _)
SplitTime(s, acc) ==
  IF s = <<>> THEN <<acc>>
  ELSE IF Head(s) \in {":", ",", "."}
    THEN <<acc>> \o SplitTime(Tail(s), <<>>)
    ELSE SplitTime(Tail(s), Append(acc, Head(s)))

\* part.padStart(n, '0')
PadStart(part, n) ==
  [k \in 1..(IF Len(part) >= n THEN 0 ELSE n - Len(part)) |-> "0"] \o part

\* normalizeTime
NormalizeTime(time) ==
  LET parts == SplitTime(time, <<>>)
  IN  IF Len(parts) >= 4
        THEN PadStart(parts[1], 2) \o <<":">> \o PadStart(parts[2], 2) \o <<":">>
               \o PadStart(parts[3], 2) \o <<",">> \o PadStart(parts[4], 3)
        ELSE time

\* isNaN(parseInt(line, 10)): the line does not start with a digit
IndexIsNaN(line) == line = <<>> \/ line[1] \notin Digits

\* parseInt(line, 10): the number its leading digits write
RECURSIVE ParseInt(_, _)
ParseInt(line, acc) ==
  LET digitValue(c) == IF c = "1" THEN 1 ELSE IF c = "2" THEN 2 ELSE 0
  IN  IF line # <<>> /\ line[1] \in Digits
        THEN ParseInt(Tail(line), 10 * acc + digitValue(line[1]))
        ELSE acc

\* startTime / endTime of a matched group
FixTime(group) ==
  LET time == ReplaceFirst(group, ".", <<",">>)
  IN  IF StrictTime(time) THEN time ELSE NormalizeTime(time)

\* One pass of the for loop of parse: the entries block adds, none or one.
ParseBlock(block) ==
  IF Len(block) < 2 THEN <<>>
  ELSE IF IndexIsNaN(Trim(block[1])) THEN <<>>
  ELSE LET timeMatch == TimeMatch(Trim(block[2]))
           text == Trim(Join(SubSeq(block, 3, Len(block)), <<"\n">>))
       IN  IF timeMatch = <<>> THEN <<>>
           ELSE IF text = <<>> THEN <<>>
           ELSE <<[index |-> ParseInt(Trim(block[1]), 0),
                   startTime |-> FixTime(timeMatch[1]),
                   endTime |-> FixTime(timeMatch[2]),
                   text |-> text]>>

\* The entries parse returns.
ParseBlocks(blocks) == Flatten([k \in 1..Len(blocks) |-> ParseBlock(blocks[k])])

\* Timestamps as files hold them: well formed, with a dot, with a one-digit
\* hour, with a one-digit millisecond field, with a three-digit hour, and
\* no timestamp at all.
TimeStrings ==
  LET good == <<"0", "0", ":", "0", "1", ":", "0", "2", ",", "0", "0", "1">>
  IN  {good, [good EXCEPT ![9] = "."], Tail(good), SubSeq(good, 1, 10),
       <<"1">> \o good, <<"x">>}

\* Blocks as files hold them: an index line, a number or not, alone or
\* followed by a time line and no, one or two lines of text.
Blocks ==
  LET timeLines ==
        {s \o <<" ", "-->", " ">> \o e : s, e \in TimeStrings} \cup {<<"x">>}
      indexLines == {<<"1", "2">>, <<"x">>}
      textLines == {<<>>, <<<<"a">>>>, <<<<"a">>, <<"b", " ">>>>}
  IN  {<<i>> : i \in indexLines}
        \cup {<<i, t>> \o x : i \in indexLines, t \in timeLines, x \in textLines}
Contents == UNION {[1..m -> Blocks] : m \in 0..MaxBlocks}

\* SRTParser.parse
Parse ==
  /\ ~parsed.done
  /\ parsed' = [done |-> TRUE, entries |-> ParseBlocks(content)]
  /\ UNCHANGED <<serviceVars, translatorVars, processVars, writeLog, translator,
                 jobs, content>>

\* ---------------------------------------------------------- processSubtitle
\* A filename is a name and an extension, one token each.
\* SRTParser.canParse: filename.toLowerCase().endsWith('.srt')
CanParse(name) ==
  LET toLowerCase(s) ==
        [k \in 1..Len(s) |-> IF s[k] = ".SRT" THEN ".srt" ELSE s[k]]
  IN  name # <<>> /\ toLowerCase(name)[Len(name)] = ".srt"

\* findParser: the only parser registered is the SRTParser.
FindParser(name) == CanParse(name)

\* const targetFormat = format || data.format, data.format being 'srt' as
\* SRTParser.parse sets it.
TargetFormat(format) ==
  IF format # Undef /\ format # <<>> THEN format ELSE <<"srt">>

\* findGenerator: the only generator registered is the SRTGenerator, whose
\* getExtension().slice(1) is 'srt'.
FindGenerator(format) == format = <<"srt">>

\* SRTGenerator.generate: the entries in the order of their index field.
SortByIndex(entries) ==
  LET rank(p) ==
        Cardinality({q \in 1..Len(entries) : entries[q].index < entries[p].index}) + 1
  IN  [r \in 1..Len(entries) |-> entries[CHOOSE p \in 1..Len(entries) : rank(p) = r]]

\* new Error(`不支持的文件格式: ${filename}`)
UnsupportedFile == [kind |-> "unsupportedFile", call |-> 0]
\* new Error(`不支持生成格式: ${targetFormat}`)
UnsupportedFormat == [kind |-> "unsupportedFormat", call |-> 0]

NotGenerated == [state |-> "none", entries |-> <<>>, error |-> NoError]

ProcessUnused ==
  filename = Undef /\ outputFormat = Undef /\ generated = NotGenerated

\* The jobs handed to processSubtitle; the document is what the parser
\* makes of the content.
ProcessJobs ==
  [capability : {"mock"}, n : 0..MaxProcessN,
   options :
     {o \in SingleOptions : o.parallelCount \in {<<>>, <<2>>} /\ o.onProgress}
       \cup {o \in MultiOptions : o.multiLineBatchSize = 2 /\ o.onProgress}]

\* processSubtitle is called: parseSubtitle throws when no parser takes the
\* filename, else translateSubtitle is called on the parsed document.
ProcessSubtitle ==
  /\ filename # Undef
  /\ pc = "idle"
  /\ IF FindParser(filename)
       THEN Start
       ELSE /\ Throw(UnsupportedFile)
            /\ UNCHANGED <<jobVars, aborted, answers, lastProgress, eventCount,
                           abortedAt, results, poolVars, loopIndex, inFlight,
                           callLog>>

\* translateSubtitle has returned its document: generateSubtitle throws when
\* no generator serves the target format, else the generator runs.
GenerateSubtitle ==
  /\ filename # Undef
  /\ pc = "done" /\ outcome.status = "completed"
  /\ generated = NotGenerated
  /\ generated' =
       IF FindGenerator(TargetFormat(outputFormat))
         THEN [state |-> "generated", entries |-> SortByIndex(outcome.entries),
               error |-> NoError]
         ELSE [state |-> "failed", entries |-> <<>>, error |-> UnsupportedFormat]
  /\ UNCHANGED <<serviceVars, translatorVars, filename, outputFormat, writeLog,
                 translator, jobs, parserVars>>

\* ------------------------------------------------------------ specifications
Init == TranslatorUnused /\ ProcessUnused /\ \E job \in Jobs : InitJob(job)

InitContext ==
  TranslatorUnused /\ ProcessUnused /\ \E job \in ContextJobs : InitJob(job)

InitLive == TranslatorUnused /\ ProcessUnused /\ \E job \in LiveJobs : InitJob(job)

\* Two calls are about to be made on one instance.
InitTwo ==
  /\ TranslatorUnused /\ ProcessUnused
  /\ data = SourceData(0) /\ capability = "mock"
  /\ options = CHOOSE o \in SingleOptions : o.parallelCount = <<2>> /\ o.onProgress
  /\ aborted = FALSE /\ pc = "idle" /\ results = <<>> /\ completedCount = 0
  /\ nextIndex = 1 /\ activePromises = <<>> /\ tasks = <<>> /\ raceWinner = 0
  /\ loopIndex = 1 /\ inFlight = {} /\ callLog = <<>> /\ answers = <<>>
  /\ lastProgress = NoProgress /\ eventCount = 0 /\ abortedAt = -1
  /\ outcome = Running /\ writeLog = <<>> /\ translator = "first"
  /\ content = <<>> /\ parsed = [done |-> FALSE, entries |-> <<>>]
  /\ \E n1, n2 \in 0..MaxTwoN, c1, c2 \in {2, 3} :
       jobs = <<TwoJob(1, n1, c1), TwoJob(2, n2, c2)>>

\* A file is about to be parsed.
InitParse ==
  /\ TranslatorUnused /\ ProcessUnused
  /\ data = SourceData(0) /\ capability = "mock"
  /\ options = CHOOSE o \in SingleOptions : o.parallelCount = <<2>> /\ o.onProgress
  /\ aborted = FALSE /\ pc = "idle" /\ results = <<>> /\ completedCount = 0
  /\ nextIndex = 1 /\ activePromises = <<>> /\ tasks = <<>> /\ raceWinner = 0
  /\ loopIndex = 1 /\ inFlight = {} /\ callLog = <<>> /\ answers = <<>>
  /\ lastProgress = NoProgress /\ eventCount = 0 /\ abortedAt = -1
  /\ outcome = Running /\ writeLog = <<>> /\ translator = "first"
  /\ jobs = <<>>
  /\ content \in Contents
  /\ parsed = [done |-> FALSE, entries |-> <<>>]

InitSwap == TranslatorUnused /\ ProcessUnused /\ \E job \in SwapJobs : InitJob(job)

InitSink == TranslatorUnused /\ ProcessUnused /\ \E job \in SinkJobs : InitJob(job)

\* processSubtitle is about to be called.
InitProcess ==
  /\ TranslatorUnused
  /\ \E job \in ProcessJobs : InitJob(job)
  /\ filename \in {<<"a", ".srt">>, <<"a", ".SRT">>, <<"a", ".ass">>}
  /\ outputFormat \in {Undef, <<>>, <<"srt">>, <<"vtt">>}
  /\ generated = NotGenerated

\* One translate call of an LLMTranslator, no job running.
InitPrompt ==
  /\ InitJob([capability |-> "mock", n |-> 0,
              options |-> CHOOSE o \in SingleOptions :
                            o.parallelCount = <<>> /\ o.onProgress])
  /\ config \in Configs
  /\ request \in Requests
  /\ prompt = Undef
  /\ ProcessUnused

\* One translate call of an LLMTranslator whose templates hold several
\* {context} tokens.
InitRender ==
  /\ InitJob([capability |-> "mock", n |-> 0,
              options |-> CHOOSE o \in SingleOptions :
                            o.parallelCount = <<>> /\ o.onProgress])
  /\ config \in RenderConfigs
  /\ request \in Requests
  /\ prompt = Undef
  /\ ProcessUnused

\* One translate call of the LLMTranslator with a process mode.
InitMode ==
  /\ InitJob([capability |-> "mock", n |-> 0,
              options |-> CHOOSE o \in SingleOptions :
                            o.parallelCount = <<>> /\ o.onProgress])
  /\ config \in ModeConfigs
  /\ request \in ModeRequests
  /\ prompt = Undef
  /\ ProcessUnused

Next ==
  \/ Start
  \/ Abort
  \/ SerialReturn
  \/ MultiReturn
  \/ \E p \in 1..total : TranslateOneSettle(p)
  \/ RaceSettled

Spec == Init /\ [][Next]_vars

\* The same program on the jobs that ask for context.
SpecContext == InitContext /\ [][Next]_vars

\* The event loop runs every step that is ready, and every capability call
\* returns or fails; the caller need not ever abort.
SpecLive ==
  /\ InitLive /\ [][Next]_vars
  /\ WF_vars(Start)
  /\ WF_vars(SerialReturn)
  /\ WF_vars(MultiReturn)
  /\ WF_vars(\E p \in 1..total : TranslateOneSettle(p))
  /\ WF_vars(RaceSettled)

NextSink ==
  \/ Start
  \/ Abort
  \/ \E p \in 1..total : TranslateOneSettleSink(p)
  \/ RaceSettled

\* The parallel scheduler with a progress sink that may throw.
SpecSink == InitSink /\ [][NextSink]_vars

NextSwap ==
  \/ Start
  \/ Abort
  \/ SerialReturn
  \/ MultiReturn
  \/ \E p \in 1..total : TranslateOneSettle(p)
  \/ RaceSettled
  \/ \E t \in {"first", "second"} : SetTranslator(t)

\* A job during which the caller may replace the service's translator.
SpecSwap == InitSwap /\ [][NextSwap]_vars

NextTwo ==
  \/ \E j \in JobIds : TwoStart(j)
  \/ \E j \in JobIds : \E p \in 1..MaxTwoN : TwoSettle(j, p)
  \/ \E j \in JobIds : TwoRace(j)
  \/ \E j \in JobIds : TwoAbort(j)

\* Two parallel-mode calls side by side on one instance.
SpecTwo == InitTwo /\ [][NextTwo]_vars

NextPrompt == Translate

NextProcess ==
  \/ ProcessSubtitle
  \/ Abort
  \/ SerialReturn
  \/ MultiReturn
  \/ \E p \in 1..total : TranslateOneSettle(p)
  \/ RaceSettled
  \/ GenerateSubtitle

\* processSubtitle: parse, translate, generate.
SpecProcess == InitProcess /\ [][NextProcess]_vars

\* The prompt resolution of LLMTranslator.translate on its own.
SpecPrompt == InitPrompt /\ [][NextPrompt]_vars

\* The prompt resolution with templates holding several {context} tokens.
SpecRender == InitRender /\ [][NextPrompt]_vars

NextMode == TranslateMode

NextParse == Parse

\* SRTParser.parse on its own.
SpecParse == InitParse /\ [][NextParse]_vars

\* The prompt resolution of the LLMTranslator with a process mode.
SpecMode == InitMode /\ [][NextMode]_vars

\* ================================================================== claims
\* The modes and the pool size as the claims state them.
SequentialMode ==
  /\ options.mode = "single"
  /\ (options.parallelCount = <<>> \/ options.parallelCount[1] <= 1)

ParallelMode ==
  /\ options.mode = "single"
  /\ options.parallelCount # <<>>
  /\ options.parallelCount[1] >= 2

MultiMode == options.mode = "multi"

PoolSize ==
  IF SequentialMode THEN 1 ELSE Min(10, Max(2, options.parallelCount[1]))

\* The clamped batch size b, the number of runs and the run of a position.
RunSize == Max(2, Min(10, options.multiLineBatchSize))
RunCount == (total + RunSize - 1) \div RunSize
RunStart(k) == (k - 1) * RunSize + 1
RunEnd(k) == Min(k * RunSize, total)
RunOf(p) == ((p - 1) \div RunSize) + 1

\* What the capability produced for position p: nothing yet, a failure, no
\* segment of the batch reply, or a text.
NotAnswered == <<"not answered">>
Failed == <<"failed">>
NoSegment == <<"no segment">>

Produced(p) ==
  LET first == IF MultiMode THEN RunStart(RunOf(p)) ELSE p
      a == answers[first]
      segments == Split(a.text, MULTI_LINE_SEP)
      j == p - first + 1
  IN  IF a = Unanswered THEN NotAnswered
      ELSE IF ~a.ok THEN Failed
      ELSE IF ~MultiMode THEN a.text
      ELSE IF j <= Len(segments) THEN segments[j] ELSE NoSegment

HasText(x) == x \notin {NotAnswered, Failed, NoSegment}

Done(status) == pc = "done" /\ outcome.status = status

SameFrame(p) ==
  /\ outcome.entries[p].index = SourceEntry(p).index
  /\ outcome.entries[p].startTime = SourceEntry(p).startTime
  /\ outcome.entries[p].endTime = SourceEntry(p).endTime

\* C1, as stated: a completed job returns one entry per input entry, entry p
\* with the index and the times of input entry p and exactly the text
\* produced for position p (the source text after a caught failure or a
\* missing segment); the input entries are unchanged.
C1_TextAsProduced ==
  Done("completed") =>
    /\ Len(outcome.entries) = total
    /\ data = SourceData(total)
    /\ \A p \in 1..total :
         /\ SameFrame(p)
         /\ outcome.entries[p].text =
              IF HasText(Produced(p)) THEN Produced(p) ELSE SourceText(p)

\* C1, amended: as above, the text of entry p being the text produced for
\* position p with the whitespace around it removed, or the source text of
\* position p when that is empty or nothing was produced.
C1_PositionalOrder ==
  Done("completed") =>
    /\ Len(outcome.entries) = total
    /\ data = SourceData(total)
    /\ \A p \in 1..total :
         /\ SameFrame(p)
         /\ outcome.entries[p].text =
              IF HasText(Produced(p)) /\ Trim(Produced(p)) # <<>>
                THEN Trim(Produced(p)) ELSE SourceText(p)

\* A parallel job of three units completed, its first position answered last.
C1_Witness ==
  /\ Done("completed") /\ ParallelMode /\ total >= 3
  /\ lastProgress.currentIndex = 0
  /\ \A p \in 1..total : HasText(Produced(p)) /\ Trim(Produced(p)) # <<>>

\* C2: in sequential mode a failed call with the abort flag not set is
\* caught: the slot gets its source text and no error leaves the job.
C2_SerialSoftFail ==
  (SequentialMode /\ ~aborted) =>
    /\ outcome.status # "failed"
    /\ \A p \in 1..total : Produced(p) = Failed => At(results, p) = SourceText(p)

\* C3: in parallel mode, a call that fails with the abort flag not set fills
\* its slot with the source text, counts as completed and is reported; no
\* error leaves the job and a job that completes has had every unit answered.
C3_FailureStep(p) ==
  (ParallelMode /\ ~aborted /\ answers[p] = Unanswered /\ answers'[p] = Failure) =>
    /\ results'[p] = SourceText(p)
    /\ completedCount' = completedCount + 1
    /\ outcome' = outcome
    /\ options.onProgress =>
         /\ eventCount' = eventCount + 1
         /\ lastProgress'.completed = completedCount'
         /\ lastProgress'.currentIndex = p - 1
         /\ lastProgress'.translatedEntries[p].text = SourceText(p)

C3_NoEscape ==
  (ParallelMode /\ ~aborted) =>
    /\ outcome.status \in {"running", "completed"}
    /\ Done("completed") =>
         \A p \in 1..total :
           /\ answers[p] # Unanswered
           /\ answers[p] = Failure => outcome.entries[p].text = SourceText(p)

C3_ParallelSoftFail ==
  [](C3_NoEscape) /\ [][\A p \in 1..total : C3_FailureStep(p)]_vars

\* A parallel job completed with one call failed and another translated.
C3_Witness ==
  /\ Done("completed") /\ ParallelMode /\ ~aborted
  /\ \E p, q \in 1..total :
       /\ answers[p] = Failure
       /\ answers[q].ok /\ outcome.entries[q].text # SourceText(q)

\* C4: in multi-line mode a failed batch call ends the job with that call's
\* error: it is the last call made, no snapshot is emitted for its batch or
\* a later one, and no document is returned.
C4_BatchFailureFatal ==
  \A k \in 1..RunCount :
    (MultiMode /\ answers[RunStart(k)] = Failure) =>
      /\ Done("failed")
      /\ outcome.error = CallError(k)
      /\ outcome.entries = <<>>
      /\ Len(callLog) = k
      /\ callLog[k].first = RunStart(k)
      /\ inFlight = {}
      /\ \A q \in (RunStart(k) + 1)..total : answers[q] = Unanswered
      /\ eventCount = IF options.onProgress THEN k - 1 ELSE 0
      /\ lastProgress.completed < RunStart(k)

\* The second of three batches failed.
C4_Witness ==
  /\ MultiMode /\ RunCount = 3
  /\ answers[RunStart(2)] = Failure
  /\ eventCount = 1

\* C5: in multi-line mode a position whose batch reply has no segment for it
\* holds its source text, in its slot and in the returned document; a short
\* reply does not make the job fail and no returned text is empty.
C5_UnderReturnFallback ==
  MultiMode =>
    /\ \A p \in 1..total :
         Produced(p) = NoSegment =>
           /\ results[p] = SourceText(p)
           /\ Done("completed") => outcome.entries[p].text = SourceText(p)
    /\ Done("failed") => \E k \in 1..RunCount : answers[RunStart(k)] = Failure
    /\ Done("completed") =>
         \A p \in 1..total : outcome.entries[p].text \notin {<<>>, Undef}

\* A completed multi-line job one of whose replies was a segment short.
C5_Witness ==
  /\ MultiMode /\ Done("completed")
  /\ \E p \in 2..total : Produced(p) = NoSegment /\ HasText(Produced(p - 1))

\* Every reply so far is the texts of its run joined by the separator.
EveryReplyEchoes ==
  \A k \in 1..Len(callLog) :
    answers[RunStart(k)] # Unanswered =>
      answers[RunStart(k)] =
        Reply(Join(SubSeq(texts, RunStart(k), RunEnd(k)), MULTI_LINE_SEP))

\* C6: in multi-line mode the k-th call carries the k-th contiguous run of b
\* positions (the last run possibly shorter), at most one call is in flight,
\* a completed job has made ceil(n/b) calls, and when every reply echoes its
\* run the returned texts are the input texts.
C6_BatchPartition ==
  MultiMode =>
    /\ Cardinality(inFlight) <= 1
    /\ Len(callLog) <= RunCount
    /\ \A k \in 1..Len(callLog) :
         /\ callLog[k].first = RunStart(k)
         /\ callLog[k].count = RunEnd(k) - RunStart(k) + 1
         /\ callLog[k].content = BatchContent(SubSeq(texts, RunStart(k), RunEnd(k)))
         /\ k < Len(callLog) => answers[RunStart(k)] # Unanswered
    /\ Done("completed") =>
         /\ Len(callLog) = RunCount
         /\ EveryReplyEchoes =>
              \A p \in 1..total : outcome.entries[p].text = SourceText(p)

\* Five entries, batch size 2, three echoing calls, job completed.
C6_Witness ==
  /\ MultiMode /\ Done("completed") /\ capability = "arbitrary"
  /\ total = 5 /\ options.multiLineBatchSize = 2
  /\ Len(callLog) = 3 /\ EveryReplyEchoes

\* The slots of a snapshot that do not show the placeholder.
ResolvedSlots(snapshot) ==
  Cardinality({p \in 1..Len(snapshot.translatedEntries) :
                 snapshot.translatedEntries[p].text # Placeholder})

\* C7: in parallel mode, when the abort flag is set during the progress
\* event of the k-th completion, the job ends cancelled and its last snapshot
\* shows at least k and at most k + P slots that are not the placeholder.
C7_AbortAfterKth ==
  (ParallelMode /\ abortedAt >= 0 /\ pc = "done") =>
    /\ outcome.status = "cancelled"
    /\ ResolvedSlots(lastProgress) >= abortedAt
    /\ ResolvedSlots(lastProgress) <= abortedAt + PoolSize

\* C8: in parallel mode, once the abort flag is set no call is started, no
\* slot is written, nothing is counted or reported (the last snapshot stays
\* as it is), calls in flight only return, and the job ends cancelled.
C8_AbortedStep ==
  (ParallelMode /\ aborted) =>
    /\ callLog' = callLog
    /\ inFlight' \subseteq inFlight
    /\ results' = results
    /\ completedCount' = completedCount
    /\ eventCount' = eventCount
    /\ lastProgress' = lastProgress

C8_EndsCancelled ==
  (ParallelMode /\ aborted /\ pc = "done") =>
    outcome.status = "cancelled" /\ outcome.error = CancelError

C8_AbortStopsAdmission ==
  [](C8_EndsCancelled) /\ [][C8_AbortedStep]_vars

\* A cancelled parallel job: a call in flight at the abort has returned a
\* text that stayed out of the slots, with an earlier slot kept.
C8_Witness ==
  /\ ParallelMode /\ Done("cancelled") /\ completedCount >= 1
  /\ nextIndex <= total
  /\ \E p \in 1..total :
       /\ tasks[p].state = "rejected" /\ answers[p].ok
       /\ results[p] = Undef

\* C9: in single-line mode the calls in flight never exceed the pool size.
C9_PoolBound ==
  options.mode = "single" => Cardinality(inFlight) <= PoolSize

\* A parallelCount above 10 with ten calls in flight and a unit waiting.
C9_Witness ==
  /\ options.parallelCount = <<12>>
  /\ Cardinality(inFlight) = 10
  /\ total > 10

\* C10: a snapshot has one entry per position, in order; the entry of a
\* position shows the placeholder exactly when its slot was not complete at
\* the snapshot, and a completed slot shows its text (up to the whitespace
\* around it), whatever the capability returned.
C10_PlaceholderIffPending ==
  lastProgress # NoProgress =>
    /\ Len(lastProgress.translatedEntries) = total
    /\ \A p \in 1..total :
         LET slot == At(lastProgress.translatedTexts, p)
             shown == lastProgress.translatedEntries[p]
         IN  /\ shown.index = SourceEntry(p).index
             /\ shown.text = Placeholder <=> slot = Undef
             /\ slot # Undef => shown.text = Trim(slot)

\* C11: across the snapshots of one job, in every mode, a position that
\* shows a text other than the placeholder in one snapshot shows the same
\* text in the next one, hence in every later one.
C11_ResolvedStays ==
  [][\A p \in 1..total :
       (lastProgress # NoProgress
          /\ lastProgress.translatedEntries[p].text # Placeholder) =>
         lastProgress'.translatedEntries[p].text =
           lastProgress.translatedEntries[p].text]_vars

\* A parallel job's third snapshot: position 1 resolved last, the two
\* positions resolved before it still shown.
C11_Witness ==
  /\ ParallelMode /\ eventCount >= 3
  /\ lastProgress.currentIndex = 0
  /\ ResolvedSlots(lastProgress) >= 3

\* C12: every snapshot of a job carries the number of input entries as its
\* total, a completed count between 0 and the total, and the percentage
\* 100 * completed / total rounded to the nearest integer, within 0..100;
\* from one snapshot to the next neither the count nor the percentage
\* decreases, and in single-line mode the count increases.
C12_SnapshotShape ==
  lastProgress # NoProgress =>
    /\ lastProgress.total = total
    /\ lastProgress.total = Len(SourceData(total))
    /\ lastProgress.completed \in 0..total
    /\ lastProgress.percent \in 0..100
    /\ 2 * total * lastProgress.percent <= 200 * lastProgress.completed + total
    /\ 200 * lastProgress.completed + total < 2 * total * (lastProgress.percent + 1)

C12_SnapshotStep ==
  eventCount' # eventCount =>
    /\ lastProgress'.completed >= lastProgress.completed
    /\ lastProgress'.percent >= lastProgress.percent
    /\ options.mode = "single" => lastProgress'.completed > lastProgress.completed

C12_ProgressMonotonic ==
  [](C12_SnapshotShape) /\ [][C12_SnapshotStep]_vars

\* The second of three snapshots: two thirds done, shown as 67 percent.
C12_Witness ==
  /\ total = 3 /\ eventCount = 2
  /\ lastProgress.completed = 2 /\ lastProgress.percent = 67

\* The context block as the claims describe it: an 'above' section with the
\* texts of the `a` positions before p, the target section with the text of
\* p, a 'below' section with the texts of the `b` positions after p; a
\* section with no text is left out.
ContextWindow ==
  IF options.enableCoherence THEN Max(options.contextLines, 1)
                             ELSE options.contextLines

ContextSection(header, from, to) ==
  header \o <<"\n">> \o Join([k \in 1..(to - from + 1) |-> SourceText(from + k - 1)],
                            <<"\n">>)

ContextOf(p, a, b) ==
  Join((IF a = 0 THEN <<>> ELSE <<ContextSection(AboveHeader, p - a, p - 1)>>)
         \o <<TargetHeader \o <<"\n">> \o SourceText(p)>>
         \o (IF b = 0 THEN <<>> ELSE <<ContextSection(BelowHeader, p + 1, p + b)>>),
       <<"\n", "\n">>)

\* C13: in single-line mode, sequential and parallel alike, with an
\* effective window N > 0 the call for position p carries the context block
\* made of the texts of the min(N, p - 1) positions before p, the text of p
\* and the texts of the min(N, n - p) positions after p, the 'above' section
\* left out for the first position and the 'below' section for the last.
C13_ContextBlock ==
  (options.mode = "single" /\ ContextWindow > 0) =>
    \A k \in 1..Len(callLog) :
      LET p == callLog[k].first
      IN  /\ callLog[k].options.given
          /\ callLog[k].options.context =
               ContextOf(p, Min(ContextWindow, p - 1), Min(ContextWindow, total - p))

\* Five entries, contextLines 2, parallel: the call for the first position
\* carries the target and a 'below' section of two texts, the call for the
\* second an 'above' section of one text.
C13_Witness ==
  /\ ParallelMode /\ total = 5 /\ options.contextLines = 2
  /\ ~options.enableCoherence
  /\ Len(callLog) >= 2
  /\ callLog[1].options.context =
       TargetHeader \o <<"\n">> \o SourceText(1) \o <<"\n", "\n">>
         \o BelowHeader \o <<"\n">> \o SourceText(2) \o <<"\n">> \o SourceText(3)
  /\ callLog[2].options.context = ContextOf(2, 1, 2)

\* C14: whatever contextLines the caller passes, the context block of a
\* call holds at most 3 texts before the target and at most 3 after it.
C14_ContextLinesClamped ==
  options.mode = "single" =>
    \A k \in 1..Len(callLog) :
      LET p == callLog[k].first
      IN  callLog[k].options.context # Undef =>
            \E a \in 0..Min(3, p - 1), b \in 0..Min(3, total - p) :
              callLog[k].options.context = ContextOf(p, a, b)

\* C15: in multi-line mode, whatever integer batch size the caller passes
\* (zero, one, negative, above 10), every call carries between 1 and 10
\* units, only the call that reaches the last entry carries fewer than 2,
\* and the batch loop ends: each call starts after the one before it, so no
\* more calls are made than there are entries.
C15_EveryBatchBounded ==
  MultiMode =>
    /\ Len(callLog) <= total
    /\ \A k \in 1..Len(callLog) :
         /\ callLog[k].count \in 1..10
         /\ callLog[k].count < 2 => callLog[k].first + callLog[k].count - 1 = total
         /\ k > 1 => callLog[k].first >= callLog[k - 1].first + 2

C15_LoopAdvances ==
  MultiMode =>
    /\ loopIndex' >= loopIndex
    /\ loopIndex' <= total + 10
    /\ (callLog # <<>> /\ callLog' # callLog) =>
         /\ Len(callLog') = Len(callLog) + 1
         /\ loopIndex' >= loopIndex + 2

C15_BatchSizeClamped ==
  [](C15_EveryBatchBounded) /\ [][C15_LoopAdvances]_vars

\* Eleven entries with batch size 11: a call of ten units, then the last
\* call with the one unit left, and the job completed.
C15_Witness ==
  /\ MultiMode /\ options.multiLineBatchSize = 11 /\ total = 11
  /\ Done("completed")
  /\ Len(callLog) = 2 /\ callLog[1].count = 10 /\ callLog[2].count = 1

\* C16: the prompt handed to the capability holds none of the recognized
\* placeholder tokens, whatever the main template and the values.
C16_NoPlaceholderLeft ==
  prompt # Undef =>
    \A k \in 1..Len(prompt) : prompt[k] \notin RecognizedPlaceholders

\* C17: prompt resolution is deterministic and idempotent: resolving the
\* same template with the same values again gives the prompt again, and
\* resolving the prompt itself, as a template, with the same values gives
\* the prompt unchanged.
C17_ResolveIdempotent ==
  prompt # Undef =>
    /\ ResolvePrompt(config, request) = prompt
    /\ ResolvePrompt([config EXCEPT !.prompt = prompt], request) = prompt

\* The case of C18: coherence enabled, a context block passed and not
\* empty, a coherence template configured.
CoherenceActive ==
  /\ prompt # Undef
  /\ request.options.given /\ request.options.enableCoherence
  /\ request.options.context \notin {Undef, <<>>}
  /\ config.coherencePrompt \notin {Undef, <<>>}

\* The rendered coherence content: the coherence template with the context
\* block in place of {context}.
CoherenceContent ==
  Flatten([k \in 1..Len(config.coherencePrompt) |->
             IF config.coherencePrompt[k] = "{context}"
               THEN request.options.context
               ELSE <<config.coherencePrompt[k]>>])

\* How many times sub occurs in s.
Occurrences(s, sub) ==
  Cardinality({k \in 1..(Len(s) - Len(sub) + 1) :
                 SubSeq(s, k, k + Len(sub) - 1) = sub})

EndsWith(s, sub) ==
  Len(s) >= Len(sub) /\ SubSeq(s, Len(s) - Len(sub) + 1, Len(s)) = sub

CoherenceTokens ==
  Cardinality({k \in 1..Len(config.prompt) : config.prompt[k] = "{coherence_prompt}"})

\* What one token of the main template resolves to, coherence aside.
ResolvedToken(k) ==
  ResolvePrompt([config EXCEPT !.prompt = <<config.prompt[k]>>],
                [request EXCEPT !.options.enableCoherence = FALSE])

C19_FormatErrorBeforeCalls ==
  /\ (pc = "done" /\ outcome.error = UnsupportedFile) => callLog = <<>>
  /\ generated.error = UnsupportedFormat => callLog = <<>>

\* C20: in every mode, a job that has stopped without a document while the
\* abort flag is set has surfaced the cancellation error, not the error of
\* a capability call: a call that fails after the flag was set does not
\* make the job end as failed.
C20_CancelNotFailure ==
  (pc = "done" /\ aborted /\ outcome.status # "completed") =>
    /\ outcome.status = "cancelled"
    /\ outcome.error = CancelError

\* C21: when every capability call returns or fails, every job, in every
\* mode, ends, with exactly one outcome (completed with a document of n
\* entries, cancelled or failed) that does not change afterwards; and the
\* scheduling loop of parallel mode, while it waits, waits on a set of
\* calls that is not empty and holds no call settled already.
C21_OutcomeShape ==
  /\ pc # "done" => outcome = Running
  /\ pc = "done" =>
       /\ outcome.status \in {"completed", "cancelled", "failed"}
       /\ outcome.status = "completed" <=> outcome.error = NoError
       /\ outcome.status = "completed" => Len(outcome.entries) = total
  /\ (pc = "parallel" /\ raceWinner = 0) =>
       /\ activePromises # <<>>
       /\ \A k \in 1..Len(activePromises) :
            /\ tasks[activePromises[k]].state = "pending"
            /\ activePromises[k] \in inFlight

C21_OutcomeStable == pc = "done" => (pc' = "done" /\ outcome' = outcome)

C21_EveryJobEnds ==
  /\ [](C21_OutcomeShape)
  /\ [][C21_OutcomeStable]_vars
  /\ <>(pc = "done")

\* A parallel job that ended completed after one of its calls had failed
\* and the other had answered.
C21_Witness ==
  /\ ParallelMode /\ Done("completed") /\ total = 2
  /\ answers[1] = Failure /\ answers[2].ok

\* C22: a snapshot is emitted once per completed unit in single-line mode
\* and once per completed batch in multi-line mode: the k-th snapshot of a
\* single-line job counts k units, the k-th of a multi-line job counts the
\* positions up to the end of the k-th batch and names the last of them; a
\* completed job with a progress sink has emitted n snapshots (single) or
\* ceil(n/b) snapshots (multi), the last with completed = total and
\* percent = 100; without a sink nothing is emitted.
C22_EventsSoFar ==
  /\ ~options.onProgress => eventCount = 0
  /\ (options.onProgress /\ SequentialMode) => eventCount = Len(results)
  /\ (options.onProgress /\ ParallelMode) => eventCount = completedCount
  /\ (options.onProgress /\ Done("completed")) =>
       /\ eventCount = IF MultiMode THEN RunCount ELSE total
       /\ total > 0 => lastProgress.completed = total /\ lastProgress.percent = 100

C22_EventStep ==
  eventCount' # eventCount =>
    /\ eventCount' = eventCount + 1
    /\ lastProgress'.completed =
         IF MultiMode THEN RunEnd(eventCount') ELSE eventCount'
    /\ MultiMode => lastProgress'.currentIndex = RunEnd(eventCount') - 1

C22_OneEventPerUnit ==
  [](C22_EventsSoFar) /\ [][C22_EventStep]_vars

\* Five entries in batches of two, completed: three snapshots, the last
\* with all five counted.
C22_Witness ==
  /\ MultiMode /\ Done("completed") /\ total = 5 /\ RunSize = 2
  /\ eventCount = 3
  /\ lastProgress.completed = 5 /\ lastProgress.percent = 100

\* C23: when the abort flag is set already at the call of translateSubtitle
\* the job ends cancelled, in every mode and for every document, with no
\* capability call made and no snapshot emitted.
C23_CallStep ==
  (pc = "idle" /\ aborted /\ pc' # pc) =>
    /\ pc' = "done"
    /\ outcome' = [status |-> "cancelled", entries |-> <<>>, error |-> CancelError]
    /\ callLog' = <<>> /\ inFlight' = {}
    /\ eventCount' = 0 /\ lastProgress' = NoProgress

C23_NothingAfter ==
  (pc = "done" /\ callLog = <<>> /\ outcome.status = "cancelled") =>
    (callLog' = <<>> /\ eventCount' = 0 /\ outcome' = outcome)

C23_AbortedBeforeStart ==
  [][C23_CallStep]_vars /\ [][C23_NothingAfter]_vars

\* A parallel job of three entries called with the flag set: cancelled, no
\* call, no snapshot.
C23_Witness ==
  /\ ParallelMode /\ total = 3 /\ aborted
  /\ Done("cancelled") /\ callLog = <<>> /\ eventCount = 0
  /\ \A p \in 1..total : answers[p] = Unanswered

\* C24: in parallel mode the k-th call made is the call of position k, so
\* a unit admitted is the lowest position not started and no position is
\* started twice; the positions started are those below nextIndex; and
\* while the scheduler waits with the abort flag not set and positions not
\* yet started, P calls are in flight.
C24_AdmissionOrder ==
  ParallelMode =>
    /\ \A k \in 1..Len(callLog) : callLog[k].first = k /\ callLog[k].count = 1
    /\ pc # "idle" =>
         /\ Len(callLog) = nextIndex - 1
         /\ \A p \in 1..total : tasks[p] = Unstarted <=> p >= nextIndex
    /\ (pc = "parallel" /\ raceWinner = 0 /\ ~aborted /\ nextIndex <= total) =>
         Cardinality(inFlight) = PoolSize

C24_AdmissionStep ==
  (ParallelMode /\ callLog # <<>> /\ callLog' # callLog) =>
    /\ ~aborted
    /\ callLog' = Append(callLog, UnitCall(nextIndex))
    /\ nextIndex' = nextIndex + 1
    /\ tasks[nextIndex] = Unstarted
    /\ Cardinality(inFlight') <= PoolSize

C24_LowestFirst ==
  [](C24_AdmissionOrder) /\ [][C24_AdmissionStep]_vars

\* Pool of two on three entries: position 2 answered first, position 3
\* admitted in its place, the scheduler waiting on positions 1 and 3.
C24_Witness ==
  /\ ParallelMode /\ PoolSize = 2 /\ total = 3
  /\ pc = "parallel" /\ raceWinner = 0
  /\ inFlight = {1, 3}
  /\ Len(callLog) = 3

\* The first positions of the calls made so far.
CallsOf(first) == {k \in 1..Len(callLog) : callLog[k].first = first}

\* C25: no unit is sent twice: in every job, whatever its outcome, at most
\* one call was made per position (single-line) or per batch (multi-line),
\* also after a call that failed; a completed job has made exactly one call
\* per position, or per batch, and every one of them was answered.
C25_NoRetry ==
  /\ \A p \in 1..total : Cardinality(CallsOf(p)) <= 1
  /\ \A k \in 1..Len(callLog) :
       IF MultiMode THEN \E r \in 1..RunCount : callLog[k].first = RunStart(r)
                    ELSE callLog[k].count = 1
  /\ Done("completed") =>
       IF MultiMode
         THEN \A r \in 1..RunCount :
                Cardinality(CallsOf(RunStart(r))) = 1 /\ answers[RunStart(r)] # Unanswered
         ELSE \A p \in 1..total :
                Cardinality(CallsOf(p)) = 1 /\ answers[p] # Unanswered

\* A sequential job failed by its second call: two calls, none for the
\* third position.
C25_Witness ==
  /\ SequentialMode /\ Done("failed") /\ total = 3
  /\ Len(callLog) = 2 /\ answers[2] = Failure /\ answers[1].ok

\* C26: in parallel mode every results slot is written at most once in a
\* job, and only by the task admitted for its position, whatever the
\* capability answers and whatever the progress sink does, a sink that
\* throws included.
C26_SingleWriterPerSlot ==
  ParallelMode =>
    /\ \A k \in 1..Len(writeLog) : writeLog[k].task = writeLog[k].slot
    /\ \A p \in 1..total :
         Cardinality({k \in 1..Len(writeLog) : writeLog[k].slot = p}) <= 1

\* C27: the translator is fixed when the job starts: after setTranslator is
\* called while the job runs, the remaining units or batches are still sent
\* to the translator the job made its first call on.
C27_TranslatorFixedAtStart ==
  \A k \in 1..Len(callLog) : callLog[k].translator = callLog[1].translator

\* What call j ends with when it runs alone on the MockTranslator.
AloneFinal(j) == [p \in 1..Len(jobs[j].texts) |-> MockTranslate(jobs[j].texts[p])]

\* C28, final document, counts and snapshots: a call that completed beside
\* another call has the document it has alone, counted each of its units
\* once and reported the counts 1..total with its own total.
C28_SameAsAlone ==
  \A j \in JobIds :
    LET job == jobs[j]
        n == Len(job.texts)
    IN  /\ job.outcome = "completed" =>
             /\ job.final = AloneFinal(j)
             /\ job.completedCount = n
             /\ Len(job.events) = n
        /\ Len(job.events) = job.completedCount
        /\ \A k \in 1..Len(job.events) :
             /\ job.events[k].completed = k
             /\ job.events[k].total = n
             /\ job.results[job.events[k].currentIndex + 1] =
                  MockTranslate(job.texts[job.events[k].currentIndex + 1])

\* C28, abort: a call whose own flag is not set is never cancelled, whatever
\* the flag of the other call is.
C28_AbortIsOwn ==
  \A j \in JobIds : jobs[j].outcome = "cancelled" => jobs[j].aborted

\* C28: two calls running at the same time on one SubtitleService with a
\* deterministic translator are isolated: each has the final document, the
\* counts and the snapshots it has alone, and setting the abort flag of one
\* neither cancels nor alters the other.
C28_JobsIsolated == C28_SameAsAlone /\ C28_AbortIsOwn

\* Both calls were under way at once, one was aborted and cancelled, and the
\* other completed a document of two units.
C28_Witness ==
  /\ jobs # <<>>
  /\ jobs[1].outcome = "cancelled" /\ jobs[1].completedCount = 1
  /\ jobs[2].outcome = "completed" /\ Len(jobs[2].texts) = 2
  /\ jobs[2].final = AloneFinal(2)

\* C29: with coherence enabled the window is max(contextLines, 1): with
\* enableCoherence and contextLines 0 (or below) every single-line call
\* carries a block with one line above and one line below the target, where
\* those lines exist, and with a larger contextLines the block of that many
\* lines; with enableCoherence false and contextLines 0 or below no call is
\* passed a context block.
C29_CoherenceWindow ==
  options.mode = "single" =>
    \A k \in 1..Len(callLog) :
      LET p == callLog[k].first
          w == IF options.contextLines >= 1 THEN options.contextLines ELSE 1
      IN  /\ options.enableCoherence =>
               /\ callLog[k].options.enableCoherence
               /\ callLog[k].options.context =
                    ContextOf(p, Min(w, p - 1), Min(w, total - p))
          /\ (~options.enableCoherence /\ options.contextLines <= 0) =>
               callLog[k].options.context = Undef

\* Coherence with contextLines 0 on three entries or more: the call for the
\* second position carries one line above and one line below.
C29_Witness ==
  /\ options.mode = "single" /\ options.enableCoherence
  /\ options.contextLines = 0 /\ total >= 3
  /\ Len(callLog) >= 2
  /\ callLog[2].first = 2
  /\ callLog[2].options.context =
       AboveHeader \o <<"\n">> \o SourceText(1) \o <<"\n", "\n">>
         \o TargetHeader \o <<"\n">> \o SourceText(2) \o <<"\n", "\n">>
         \o BelowHeader \o <<"\n">> \o SourceText(3)

\* What one token of the main template resolves to.
ChainedToken(k) == ReplaceChain([config EXCEPT !.prompt = <<config.prompt[k]>>], request)

\* C30: {content} resolves to the text of the unit verbatim, a text that
\* holds {sourceLang}, {targetLang} or another placeholder token included:
\* the rendered prompt holds the text unchanged at each place where the main
\* template holds {content}.
C30_ContentVerbatim ==
  prompt # Undef =>
    StartsWith(prompt,
               Flatten([k \in 1..Len(config.prompt) |->
                          IF config.prompt[k] = "{content}"
                            THEN request.text ELSE ChainedToken(k)]))

\* The case of C31: context enabled, a context block passed and not empty,
\* a context template configured.
ContextActive ==
  /\ prompt # Undef
  /\ request.options.given /\ request.options.enableContext
  /\ request.options.context \notin {Undef, <<>>}
  /\ config.contextPrompt \notin {Undef, <<>>}

\* The rendered context template: the context template with the context
\* block in place of {context}.
ContextContent ==
  Flatten([k \in 1..Len(config.contextPrompt) |->
             IF config.contextPrompt[k] = "{context}"
               THEN request.options.context
               ELSE <<config.contextPrompt[k]>>])

\* C31: the rendered context template is in the prompt if and only if
\* enableContext is true, a context block that is not empty was passed, a
\* context template is configured and the main template holds
\* {context_prompt}; in every other case {context_prompt} resolves to the
\* empty string; and the context content is never appended when the main
\* template lacks the token.
C31_ContextPromptOnlyWhenActive ==
  prompt # Undef =>
    /\ (config.contextPrompt \notin {Undef, <<>>}
          /\ request.options.context \notin {Undef, <<>>}) =>
         ((Occurrences(prompt, ContextContent) > 0) <=>
            (ContextActive /\ Includes(config.prompt, "{context_prompt}")))
    /\ prompt =
         CoherenceFallback(
           Flatten([k \in 1..Len(config.prompt) |->
                      IF config.prompt[k] = "{context_prompt}"
                        THEN IF ContextActive THEN ContextContent ELSE <<>>
                        ELSE ChainedToken(k)]),
           config, request.options)

\* Context active and the token in the main template: the content stands
\* where the token stood.
C31_Witness ==
  /\ ContextActive
  /\ config.prompt = <<"x", "{context_prompt}">>
  /\ prompt = <<"x", "c", "v">>

\* C32: the context block is put in for {context} inside the active context
\* or coherence template and nowhere else: the rendered context template and
\* the rendered coherence template hold no {context} token, however many the
\* template holds, so the prompt holds none; and what is put in for
\* {content} is the text of the unit, never the context block.
C32_NoContextTokenLeft ==
  prompt # Undef =>
    /\ ~Includes(ContextPromptResolved(config, request.options), "{context}")
    /\ ~Includes(CoherencePromptResolved(config, request.options), "{context}")
    /\ ~Includes(prompt, "{context}")
    /\ (config.prompt = <<"{content}">> /\ request.text = <<"t">>
          /\ ~request.options.enableCoherence) => prompt = <<"t">>

\* How many times the token tok stands in s.
Count(s, tok) == Cardinality({k \in 1..Len(s) : s[k] = tok})

\* C33: rendering in coherence mode leaves {sourceLang} and {targetLang} as
\* they are, so that no language code gets into the prompt; rendering in
\* translate mode replaces every {sourceLang} and every {targetLang} by the
\* language codes.
C33_LanguagesOnlyInTranslateMode ==
  (prompt # Undef /\ request \in ModeRequests) =>
    LET base == BasePrompt(config, request.options)
        inText(tok) == Count(base, "{content}") * Count(request.text, tok)
    IN  IF request.options.given /\ request.options.processMode = <<"coherence">>
          THEN /\ Count(prompt, "en") = 0 /\ Count(prompt, "zh") = 0
               /\ Count(prompt, "{sourceLang}") =
                    Count(base, "{sourceLang}") + inText("{sourceLang}")
               /\ Count(prompt, "{targetLang}") = Count(base, "{targetLang}")
          ELSE /\ Count(prompt, "{sourceLang}") = 0
               /\ Count(prompt, "{targetLang}") = 0
               /\ Count(prompt, "en") =
                    Count(config.prompt, "{sourceLang}") + inText("{sourceLang}")
               /\ Count(prompt, "zh") = Count(config.prompt, "{targetLang}")

\* A coherence-mode call kept the token of the coherence template, and a
\* translate-mode call on the same kind of template would not.
C33_Witness ==
  /\ prompt # Undef /\ request \in ModeRequests
  /\ request.options.given /\ request.options.processMode = <<"coherence">>
  /\ config.coherenceModePrompt = <<"r", "{content}", "{targetLang}">>
  /\ request.text = <<"t">>
  /\ prompt = <<"r", "t", "{targetLang}">>

\* The timestamp the claim calls repairable: four fields of digits, of at
\* most 2, 2, 2 and 3 digits, none empty.
Repairable(time) ==
  LET parts == SplitTime(time, <<>>)
  IN  /\ Len(parts) = 4
      /\ \A k \in 1..4 :
           /\ parts[k] # <<>>
           /\ Len(parts[k]) <= (IF k = 4 THEN 3 ELSE 2)
           /\ \A d \in 1..Len(parts[k]) : parts[k][d] \in Digits

\* The blocks of the file that have an index, two repairable timestamps
\* and a text.
RepairableBlocks ==
  {k \in 1..Len(content) :
     LET block == content[k]
     IN  /\ Len(block) >= 3
         /\ ~IndexIsNaN(block[1])
         /\ \E s, e \in {t \in TimeStrings : Repairable(t)} :
              block[2] = s \o <<" ", "-->", " ">> \o e}

\* C34: the parser repairs a timestamp field with too few digits by
\* padding it with zeros and does not reject the block: each block with an
\* index, a text and two such timestamps gives an entry, and the startTime
\* and endTime of every entry have the form HH:MM:SS,mmm.
C34_TimestampsRepaired ==
  parsed.done =>
    /\ Len(parsed.entries) >= Cardinality(RepairableBlocks)
    /\ \A k \in 1..Len(parsed.entries) :
         /\ StrictTime(parsed.entries[k].startTime)
         /\ StrictTime(parsed.entries[k].endTime)

\* The slots of results that hold a result.
FilledSlots == {p \in 1..Len(results) : results[p] # Undef}

\* C35: in parallel mode the completed count of every snapshot is the
\* number of slots that hold a result when it is emitted and is at most
\* total, whatever the capability answers and whatever the progress sink
\* does, a sink that throws while it is invoked included.
C35_CountIsFilledSlots ==
  (ParallelMode /\ lastProgress # NoProgress) =>
    /\ lastProgress.completed = Cardinality(FilledSlots)
    /\ lastProgress.completed <= total

\* C36: in every mode, when the abort flag is set while the job waits on
\* a capability call, hence before its last call has returned, the job
\* ends cancelled and does not return a completed document.
C36_EndStep ==
  (aborted /\ pc # "done" /\ pc' = "done") => outcome'.status = "cancelled"

C36_AbortedNeverCompletes == [][C36_EndStep]_vars

\* C37: in sequential single-line mode and in multi-line mode no call is
\* started once the abort flag is set: the call in flight when the flag
\* was set is the last one, the job ends when it returns, and at most one
\* more snapshot, the one of that call, is emitted before the job ends.
C37_Step ==
  (SequentialMode \/ MultiMode) =>
    /\ aborted' => callLog' = callLog
    /\ (aborted /\ pc # "done") =>
         /\ pc' = "done"
         /\ eventCount' \in {eventCount, eventCount + 1}
    /\ pc = "done" => (callLog' = callLog /\ eventCount' = eventCount)

C37_NoCallAfterAbort == [][C37_Step]_vars

\* A sequential job of three entries aborted during its first call: that
\* call was the last, its snapshot the only one, and the job is cancelled.
C37_Witness ==
  /\ SequentialMode /\ total = 3 /\ aborted /\ abortedAt = -1
  /\ Done("cancelled")
  /\ Len(callLog) = 1 /\ eventCount = 1

\* What the sequential loop ends with on a capability that answers each
\* text as it was answered in this job: failed when a call fails, else
\* completed with the trimmed reply of each position, or its source text.
SequentialStatus ==
  IF \E p \in 1..total : Produced(p) = Failed THEN "failed" ELSE "completed"

SequentialText(p) ==
  IF Trim(Produced(p)) # <<>> THEN Trim(Produced(p)) ELSE SourceText(p)

\* C38: sequential and parallel single-line mode give the same result: on
\* the same document and options, with a capability that answers a text
\* the same way whenever it is asked, and without cancellation, a job with
\* any parallelCount ends as the sequential job does, and when it completes
\* it returns the document the sequential job returns, in whatever order
\* the parallel calls end.
C38_SameAsSequential ==
  (options.mode = "single" /\ pc = "done" /\ ~aborted) =>
    /\ outcome.status = SequentialStatus
    /\ outcome.status = "completed" =>
         \A p \in 1..total : outcome.entries[p].text = SequentialText(p)

\* C39: in the document of a completed job, in every mode, the text of an
\* entry is the trimmed result of the capability for its position when that
\* is not empty, and the source text of the entry otherwise: no entry has an
\* empty text (the source texts are not empty), whether the capability
\* returns an empty string, whitespace, or fewer or more batch segments than
\* it was asked for.
C39_NoEmptyText ==
  Done("completed") =>
    \A p \in 1..total :
      LET r == Produced(p)
          blank == r \in {NotAnswered, Failed, NoSegment} \/ Trim(r) = <<>>
      IN  /\ outcome.entries[p].text # <<>>
          /\ blank => outcome.entries[p].text = data[p].text
          /\ ~blank => outcome.entries[p].text = Trim(r)

\* A sequential job completed whose capability answered the first unit
\* with whitespace: the entry has its source text.
C39_Witness ==
  /\ SequentialMode /\ Done("completed") /\ total >= 2
  /\ answers[1] = Reply(<<" ">>)
  /\ outcome.entries[1].text = SourceText(1)
  /\ answers[2] = Reply(<<>>)

\* C40: in multi-line mode the reply of a batch writes the slots of the
\* positions of that batch and no other: the segments beyond the units of
\* the batch are dropped, each position of the batch is written once, by
\* the reply of its batch, and no slot of an earlier or a later batch is
\* changed.
C40_Step ==
  (MultiMode /\ pc = "multi" /\ results' # results) =>
    LET first == RunStart(RunOf(loopIndex))
        last == RunEnd(RunOf(loopIndex))
    IN  /\ first = loopIndex
        /\ Len(results') = total
        /\ \A p \in 1..total :
             IF p >= first /\ p <= last
               THEN results[p] = Undef /\ results'[p] # Undef
               ELSE results'[p] = results[p]

C40_BatchWritesOwnRange == [][C40_Step]_vars

\* The first batch of a job of two batches was answered with one segment
\* too many: its two slots are written and the slots of the second batch
\* are not.
C40_Witness ==
  /\ MultiMode /\ pc = "multi" /\ RunSize = 2 /\ total >= 3
  /\ answers[1].ok
  /\ Len(Split(answers[1].text, MULTI_LINE_SEP)) = 3
  /\ results[1] # Undef /\ results[2] # Undef
  /\ \A p \in 3..total : results[p] = Undef

====
